---- MODULE Spec2Model ----
(***************************************************************************)
(* Speaker-identity resolution and deduplication of blink-multicamera-     *)
(* stitch: hard_dedupe (src/dedupe.py) and refine_by_verification          *)
(* (src/src/blink_stitch/cluster.py), with media discovery, clip           *)
(* processing, and the pipeline's event history and error handlers         *)
(* (src/progress/state.py, src/progress/errors.py).                        *)
(*                                                                         *)
(* Times are integers in tenths of a second.  Thresholds and similarity    *)
(* values are exact rationals <<numerator, denominator>>; every            *)
(* comparison is done by cross-multiplication.                             *)
(***************************************************************************)
EXTENDS Integers, Sequences, FiniteSets, TLC

VARIABLES
    pc,             \* position of the running call
    turns,          \* the caller's list of turns (the argument)
    iou_thresh,     \* hard_dedupe argument
    emb_cos_thresh, \* hard_dedupe argument
    sorted_turns,   \* hard_dedupe's local list `turns` after sorted()
    keep,           \* hard_dedupe's keep flags, by position in sorted_turns
    i,              \* hard_dedupe's anchor index (1-based)
    j,              \* hard_dedupe's scan index (1-based)
    result,         \* the returned list (hard_dedupe) or label array (refiner)
    err,            \* what was raised, "none" while nothing was
    labels,         \* refine_by_verification argument
    score_mode,     \* refine_by_verification argument
    external_cmd,   \* refine_by_verification argument
    max_pairs,      \* refine_by_verification argument
    score_threshold,\* refine_by_verification argument, in tenths
    ecapa_loadable, \* whether EncoderClassifier.from_hparams succeeds
    cand,           \* the sorted candidate list
    cidx,           \* position of the loop over cand (1-based)
    parent,         \* the union-find parent map
    pairs,          \* the sampled member pairs of the current candidate
    pidx,           \* position of the loop over pairs (1-based)
    scores,         \* the scores of the current candidate
    rng_pos,        \* number of draws made from the generator in this call
    rng_stream,     \* the draws of default_rng(42) seen so far
    segfile,        \* per turn index, what seg_<i>.wav holds in seg_cache_dir
    called,         \* the collaborators invoked by the running call
    verdict,        \* the verifier's scores seen so far, per pair of turns
    vstable,        \* whether the verifier scores a pair of turns the same every time
    run,            \* 1 for the first call, 2 for the call on its output
    prev_labels,    \* the labels argument of the previous call
    prev_sampled,   \* the member pairs sampled by the previous call, in order
    prev_result,    \* what the previous call returned
    sampled,        \* the member pairs sampled by the running call, in order
    iou_args,       \* iou_time arguments <<a0, a1, b0, b1>>
    iou_ret,        \* iou_time return value, None before the return
    fs,             \* the files on disk
    config,         \* BlinkMulticameraStitch.config, the keys read by discovery
    paths,          \* discover_media_paths argument
    recursive,      \* discover_media_paths argument
    exts,           \* discover_media_paths argument
    didx,           \* position of the loop over paths (1-based)
    results,        \* discover_media_paths' set of resolved paths
    discovered,     \* _discover_input_files' list of discovered paths
    clip,           \* process_one_clip's environment: caches, diarization, torch
    diar_turns,     \* process_one_clip's list of diarization turns
    embs,           \* process_one_clip's list of embeddings
    trace,          \* the calls made by process_one_clip, in order
    history,        \* PipelineState._state["history"]
    disk,           \* the history in the state file, as last written by save()
    writable,       \* whether open(state_file, 'w') succeeds
    now,            \* the clock, in seconds
    error,          \* the caller's Error object, None before it is built
    handlers,       \* ErrorManager.handlers, in insertion order
    last,           \* the last call: what it returned, slept and saved
    ncalls          \* number of calls made so far

dedupeVars == <<iou_thresh, emb_cos_thresh, sorted_turns, keep, i, j>>
refineVars == <<labels, score_mode, external_cmd, max_pairs, score_threshold,
                ecapa_loadable, cand, cidx, parent, pairs, pidx, scores, rng_pos,
                rng_stream, segfile, called, verdict, vstable, run, prev_labels,
                prev_sampled, prev_result, sampled>>
iouVars == <<iou_args, iou_ret>>
discoverVars == <<fs, config, paths, recursive, exts, didx, results, discovered>>
clipVars == <<clip, diar_turns, embs, trace>>
progVars == <<history, disk, writable, now, error, handlers, last, ncalls>>
auxVars == <<iouVars, discoverVars, clipVars, progVars>>
vars == <<pc, turns, result, err, dedupeVars, refineVars, auxVars>>

(***************************************************************************)
(* Bounds                                                                  *)
(***************************************************************************)
MaxTurns == 3

(***************************************************************************)
(* Input domains                                                           *)
(***************************************************************************)
None == "None"

\* The state of the other components while one of them runs
IouIdle ==
    /\ iou_args = <<0, 0, 0, 0>>
    /\ iou_ret = None

DiscoverIdle ==
    /\ fs = {}
    /\ config = <<>>
    /\ paths = <<>>
    /\ recursive = TRUE
    /\ exts = <<>>
    /\ didx = 0
    /\ results = {}
    /\ discovered = <<>>

ClipIdle ==
    /\ clip = <<>>
    /\ diar_turns = <<>>
    /\ embs = <<>>
    /\ trace = <<>>

ProgIdle ==
    /\ history = <<>>
    /\ disk = <<>>
    /\ writable = TRUE
    /\ now = 0
    /\ error = <<>>
    /\ handlers = <<>>
    /\ last = <<>>
    /\ ncalls = 0

AuxIdle == IouIdle /\ DiscoverIdle /\ ClipIdle /\ ProgIdle

\* 1.0 s, the margin of the early stop, in tenths of a second
Margin == 10

CameraOrder == <<"camA", "camB">>

\* Embeddings: EmbA.EmbB / (|EmbA||EmbB|) = 380/400 = 0.95, EmbC is
\* orthogonal to EmbA.
EmbA == <<20, 0, 0, 0, 0>>
EmbB == <<19, 5, 3, 2, 1>>
EmbC == <<0, 20, 0, 0, 0>>

Turn(s, e, cam, spk, emb) ==
    [abs_start |-> s, abs_end |-> e, camera |-> cam, spk_global |-> spk, emb |-> emb]

\* The three turns of the end-to-end scenario
TurnA == Turn(0, 50, "camA", "X", EmbA)
TurnB == Turn(48, 99, "camB", "X", EmbB)
TurnC == Turn(200, 250, "camA", "Y", EmbC)

TurnPool ==
    { TurnA, TurnB, TurnC,
      Turn(0, 99, "camB", "X", EmbA),
      Turn(0, 99, "camA", "X", EmbB),
      Turn(0, 50, "camB", "X", EmbB),
      Turn(48, 99, "camA", "X", EmbC),
      Turn(40, 110, "camA", "X", EmbA),
      Turn(105, 150, "camB", "X", EmbA),
      Turn(200, 250, "camB", "X", EmbA),
      Turn(0, 50, "camA", None, EmbA),
      Turn(0, 99, "camB", None, EmbB),
      Turn(0, 99, "camA", "Y", EmbA),
      Turn(48, 99, "camB", "Y", EmbB) }

IouThreshs == { <<1, 2>>, <<0, 1>> }
CosThreshs == { <<17, 20>>, <<24, 25>> }

\* A list of turns; `id` is the identity of the dict object (its position
\* in the caller's list).
WithIds(s) ==
    [k \in 1..Len(s) |->
        [id |-> k, abs_start |-> s[k].abs_start, abs_end |-> s[k].abs_end,
         camera |-> s[k].camera, spk_global |-> s[k].spk_global, emb |-> s[k].emb]]

TurnLists == UNION { [1..n -> TurnPool] : n \in 0..MaxTurns }

(***************************************************************************)
(* Pure functions of src/dedupe.py                                         *)
(***************************************************************************)
Min(a, b) == IF a <= b THEN a ELSE b
Max(a, b) == IF a >= b THEN a ELSE b

RECURSIVE Dot(_, _)
Dot(a, b) == IF Len(a) = 0 THEN 0 ELSE Head(a) * Head(b) + Dot(Tail(a), Tail(b))

\* iou_time as the rational <<inter, max(union, eps)>>.  On the integer
\* grid union is 0 or >= 1, and union = 0 forces inter = 0, so the floor 1
\* stands for 1e-6 without changing any value.
iou_time_sum(a0, a1, b0, b1) ==
    LET inter == Max(0, Min(a1, b1) - Max(a0, b0))
        union == (a1 - a0) + (b1 - b0)
    IN  <<inter, Max(union, 1)>>
iou_time(a0, a1, b0, b1) ==
    LET inter == Max(0, Min(a1, b1) - Max(a0, b0))
        union == (a1 - a0) + (b1 - b0) - inter
    IN  <<inter, Max(union, 1)>>

\* q >= thr for rationals with positive denominators
RatGE(q, thr) == q[1] * thr[2] >= thr[1] * q[2]

\* iou >= iou_thresh (line 29)
IouPasses_flipped(iou, thr) == RatGE(thr, iou)
IouPasses(iou, thr) == RatGE(iou, thr)

\* cosine(a, b) >= thr (lines 14-16 and 31): a and b are divided by
\* max(1e-6, norm), so a zero vector gives similarity 0; otherwise the
\* similarity is dot / (|a||b|), compared through its square.
CosinePasses(a, b, thr) ==
    LET d  == Dot(a, b)
        na == Dot(a, a)
        nb == Dot(b, b)
    IN  IF na = 0 \/ nb = 0 THEN thr[1] <= 0
        ELSE IF thr[1] <= 0 THEN d >= 0 \/ d * d * thr[2] * thr[2] <= thr[1] * thr[1] * na * nb
        ELSE d >= 0 /\ d * d * thr[2] * thr[2] >= thr[1] * thr[1] * na * nb

\* The sort key (abs_start, camera) of line 19
CameraRank(c) == CHOOSE k \in 1..Len(CameraOrder) : CameraOrder[k] = c
KeyLess(t, u) ==
    \/ t.abs_start < u.abs_start
    \/ t.abs_start = u.abs_start /\ CameraRank(t.camera) < CameraRank(u.camera)

\* sorted() is stable: x goes after every element whose key is <= its own
RECURSIVE InsertSorted(_, _)
RECURSIVE InsertSorted_unstable(_, _)
InsertSorted_unstable(s, x) ==
    IF Len(s) = 0 THEN <<x>>
    ELSE IF ~KeyLess(s[Len(s)], x)
         THEN Append(InsertSorted_unstable(SubSeq(s, 1, Len(s) - 1), x), s[Len(s)])
    ELSE Append(s, x)
InsertSorted(s, x) ==
    IF Len(s) = 0 THEN <<x>>
    ELSE IF KeyLess(x, s[Len(s)]) THEN Append(InsertSorted(SubSeq(s, 1, Len(s) - 1), x), s[Len(s)])
    ELSE Append(s, x)

RECURSIVE Sorted(_)
Sorted(s) ==
    IF Len(s) = 0 THEN <<>>
    ELSE InsertSorted(Sorted(SubSeq(s, 1, Len(s) - 1)), s[Len(s)])

Dur(t) == t.abs_end - t.abs_start

\* line 26
SameSpeaker_any(t, u) == TRUE
SameSpeaker(t, u) == t.spk_global = u.spk_global

\* line 23: the anchor is skipped when dropped or unresolved
IsAnchor_unresolved(kp, t) == kp
IsAnchor(kp, t) == kp /\ t.spk_global # None

\* line 27
BeyondMargin_fromstart(ti, tj) == tj.abs_start > ti.abs_start + Margin
BeyondMargin(ti, tj) == tj.abs_start > ti.abs_end + Margin

\* lines 28-31
Duplicate(ti, tj, iouT, cosT) ==
    /\ IouPasses(iou_time(ti.abs_start, ti.abs_end, tj.abs_start, tj.abs_end), iouT)
    /\ CosinePasses(ti.emb, tj.emb, cosT)

\* line 34: di >= dj keeps the anchor and drops j
KeepsAnchor_shorter(di, dj) == di <= dj
KeepsAnchor_strict(di, dj) == di > dj
KeepsAnchor(di, dj) == di >= dj

\* line 38
RECURSIVE Filter(_, _)
RECURSIVE Filter_inverted(_, _)
Filter_inverted(kp, ts) ==
    IF Len(ts) = 0 THEN <<>>
    ELSE LET rest == Filter_inverted(SubSeq(kp, 1, Len(kp) - 1), SubSeq(ts, 1, Len(ts) - 1))
         IN  IF ~kp[Len(kp)] THEN Append(rest, ts[Len(ts)]) ELSE rest
Filter(kp, ts) ==
    IF Len(ts) = 0 THEN <<>>
    ELSE LET rest == Filter(SubSeq(kp, 1, Len(kp) - 1), SubSeq(ts, 1, Len(ts) - 1))
         IN  IF kp[Len(kp)] THEN Append(rest, ts[Len(ts)]) ELSE rest

(***************************************************************************)
(* hard_dedupe, one action per branch of its two loops                     *)
(***************************************************************************)
N == Len(sorted_turns)

\* The refiner's state while only hard_dedupe runs
RefineIdle ==
    /\ labels = <<>>
    /\ score_mode = "ecapa"
    /\ external_cmd = None
    /\ max_pairs = 0
    /\ score_threshold = 0
    /\ ecapa_loadable = TRUE
    /\ cand = <<>>
    /\ cidx = 0
    /\ parent = <<>>
    /\ pairs = <<>>
    /\ pidx = 0
    /\ scores = <<>>
    /\ rng_pos = 0
    /\ rng_stream = <<>>
    /\ segfile = <<>>
    /\ called = {}
    /\ verdict = <<>>
    /\ vstable = TRUE
    /\ run = 0
    /\ prev_labels = <<>>
    /\ prev_sampled = <<>>
    /\ prev_result = <<>>
    /\ sampled = <<>>

InitDedupe ==
    /\ pc = "call"
    /\ \E s \in TurnLists : turns = WithIds(s)
    /\ iou_thresh \in IouThreshs
    /\ emb_cos_thresh \in CosThreshs
    /\ sorted_turns = <<>>
    /\ keep = <<>>
    /\ i = 0
    /\ j = 0
    /\ result = <<>>
    /\ err = "none"
    /\ RefineIdle
    /\ AuxIdle

\* lines 19-21 with a non-empty list, sorting the caller's list in place
DedupeEnter_inplace ==
    /\ pc = "call"
    /\ Len(turns) > 0
    /\ turns' = Sorted(turns)
    /\ sorted_turns' = Sorted(turns)
    /\ keep' = [k \in 1..Len(turns) |-> TRUE]
    /\ i' = 1
    /\ pc' = "outer"
    /\ UNCHANGED <<iou_thresh, emb_cos_thresh, j, result, err, refineVars, auxVars>>

\* lines 19-21 with a non-empty list: sorted() builds a new list
DedupeEnter ==
    /\ pc = "call"
    /\ Len(turns) > 0
    /\ sorted_turns' = Sorted(turns)
    /\ keep' = [k \in 1..Len(turns) |-> TRUE]
    /\ i' = 1
    /\ pc' = "outer"
    /\ UNCHANGED <<turns, iou_thresh, emb_cos_thresh, j, result, err, refineVars, auxVars>>

\* line 21: np.vstack of an empty list raises ValueError
DedupeEmptyRaises ==
    /\ pc = "call"
    /\ Len(turns) = 0
    /\ pc' = "raised"
    /\ err' = "empty"
    /\ UNCHANGED <<turns, iou_thresh, emb_cos_thresh, sorted_turns, keep, i, j, result, refineVars, auxVars>>

\* line 23: continue
SkipAnchor ==
    /\ pc = "outer"
    /\ i <= N
    /\ ~IsAnchor(keep[i], sorted_turns[i])
    /\ i' = i + 1
    /\ UNCHANGED <<pc, turns, iou_thresh, emb_cos_thresh, sorted_turns, keep, j, result, err, refineVars, auxVars>>

\* line 24: enter the forward scan
StartScan ==
    /\ pc = "outer"
    /\ i <= N
    /\ IsAnchor(keep[i], sorted_turns[i])
    /\ j' = i + 1
    /\ pc' = "inner"
    /\ UNCHANGED <<turns, iou_thresh, emb_cos_thresh, sorted_turns, keep, i, result, err, refineVars, auxVars>>

\* line 24: the scan ran off the end of the list
ScanExhausted ==
    /\ pc = "inner"
    /\ j > N
    /\ i' = i + 1
    /\ pc' = "outer"
    /\ UNCHANGED <<turns, iou_thresh, emb_cos_thresh, sorted_turns, keep, j, result, err, refineVars, auxVars>>

\* line 25
SkipDropped ==
    /\ pc = "inner"
    /\ j <= N
    /\ ~keep[j]
    /\ j' = j + 1
    /\ UNCHANGED <<pc, turns, iou_thresh, emb_cos_thresh, sorted_turns, keep, i, result, err, refineVars, auxVars>>

\* line 26
SkipOtherSpeaker ==
    /\ pc = "inner"
    /\ j <= N
    /\ keep[j]
    /\ ~SameSpeaker(sorted_turns[i], sorted_turns[j])
    /\ j' = j + 1
    /\ UNCHANGED <<pc, turns, iou_thresh, emb_cos_thresh, sorted_turns, keep, i, result, err, refineVars, auxVars>>

\* The comparison of lines 28-31 is reached
AtCompare ==
    /\ pc = "inner"
    /\ j <= N
    /\ keep[j]
    /\ SameSpeaker(sorted_turns[i], sorted_turns[j])
    /\ ~BeyondMargin(sorted_turns[i], sorted_turns[j])

\* line 27: break
EarlyStop ==
    /\ pc = "inner"
    /\ j <= N
    /\ keep[j]
    /\ SameSpeaker(sorted_turns[i], sorted_turns[j])
    /\ BeyondMargin(sorted_turns[i], sorted_turns[j])
    /\ i' = i + 1
    /\ pc' = "outer"
    /\ UNCHANGED <<turns, iou_thresh, emb_cos_thresh, sorted_turns, keep, j, result, err, refineVars, auxVars>>

\* lines 29, 31: not a duplicate, the scan goes on
NotDuplicate ==
    /\ AtCompare
    /\ ~Duplicate(sorted_turns[i], sorted_turns[j], iou_thresh, emb_cos_thresh)
    /\ j' = j + 1
    /\ UNCHANGED <<pc, turns, iou_thresh, emb_cos_thresh, sorted_turns, keep, i, result, err, refineVars, auxVars>>

\* line 34: keep[j] = False, the scan goes on
DropLater_skips ==
    /\ AtCompare
    /\ Duplicate(sorted_turns[i], sorted_turns[j], iou_thresh, emb_cos_thresh)
    /\ KeepsAnchor(Dur(sorted_turns[i]), Dur(sorted_turns[j]))
    /\ j' = j + 1
    /\ UNCHANGED <<pc, turns, iou_thresh, emb_cos_thresh, sorted_turns, keep, i, result, err, refineVars, auxVars>>
DropLater ==
    /\ AtCompare
    /\ Duplicate(sorted_turns[i], sorted_turns[j], iou_thresh, emb_cos_thresh)
    /\ KeepsAnchor(Dur(sorted_turns[i]), Dur(sorted_turns[j]))
    /\ keep' = [keep EXCEPT ![j] = FALSE]
    /\ j' = j + 1
    /\ UNCHANGED <<pc, turns, iou_thresh, emb_cos_thresh, sorted_turns, i, result, err, refineVars, auxVars>>

\* lines 36-37: keep[i] = False; break
DropAnchor_continues ==
    /\ AtCompare
    /\ Duplicate(sorted_turns[i], sorted_turns[j], iou_thresh, emb_cos_thresh)
    /\ ~KeepsAnchor(Dur(sorted_turns[i]), Dur(sorted_turns[j]))
    /\ keep' = [keep EXCEPT ![i] = FALSE]
    /\ j' = j + 1
    /\ UNCHANGED <<pc, turns, iou_thresh, emb_cos_thresh, sorted_turns, i, result, err, refineVars, auxVars>>
DropAnchor ==
    /\ AtCompare
    /\ Duplicate(sorted_turns[i], sorted_turns[j], iou_thresh, emb_cos_thresh)
    /\ ~KeepsAnchor(Dur(sorted_turns[i]), Dur(sorted_turns[j]))
    /\ keep' = [keep EXCEPT ![i] = FALSE]
    /\ i' = i + 1
    /\ pc' = "outer"
    /\ UNCHANGED <<turns, iou_thresh, emb_cos_thresh, sorted_turns, j, result, err, refineVars, auxVars>>

\* line 38
DedupeReturn ==
    /\ pc = "outer"
    /\ i > N
    /\ result' = Filter(keep, sorted_turns)
    /\ pc' = "done"
    /\ UNCHANGED <<turns, iou_thresh, emb_cos_thresh, sorted_turns, keep, i, j, err, refineVars, auxVars>>

NextDedupe ==
    \/ DedupeEnter
    \/ DedupeEmptyRaises
    \/ SkipAnchor
    \/ StartScan
    \/ ScanExhausted
    \/ SkipDropped
    \/ SkipOtherSpeaker
    \/ EarlyStop
    \/ NotDuplicate
    \/ DropLater
    \/ DropAnchor
    \/ DedupeReturn

SpecDedupe == InitDedupe /\ [][NextDedupe]_vars

(***************************************************************************)
(* hard_dedupe called on the list it returned                              *)
(***************************************************************************)
TwiceMaxTurns == 3

\* Lists shorter than TwiceMaxTurns hold any turns; the longest ones hold
\* turns of speaker X only
TwiceInputs(n) ==
    IF n < TwiceMaxTurns THEN [1..n -> TurnPool]
    ELSE [1..n -> { t \in TurnPool : t.spk_global = "X" }]

InitTwice ==
    /\ pc = "call"
    /\ \E n \in 0..TwiceMaxTurns : \E s \in TwiceInputs(n) : turns = WithIds(s)
    /\ iou_thresh \in IouThreshs
    /\ emb_cos_thresh \in CosThreshs
    /\ sorted_turns = <<>>
    /\ keep = <<>>
    /\ i = 0
    /\ j = 0
    /\ result = <<>>
    /\ err = "none"
    /\ labels = <<>>
    /\ score_mode = "ecapa"
    /\ external_cmd = None
    /\ max_pairs = 0
    /\ score_threshold = 0
    /\ ecapa_loadable = TRUE
    /\ cand = <<>>
    /\ cidx = 0
    /\ parent = <<>>
    /\ pairs = <<>>
    /\ pidx = 0
    /\ scores = <<>>
    /\ rng_pos = 0
    /\ rng_stream = <<>>
    /\ segfile = <<>>
    /\ called = {}
    /\ verdict = <<>>
    /\ vstable = TRUE
    /\ run = 1
    /\ prev_labels = <<>>
    /\ prev_sampled = <<>>
    /\ prev_result = <<>>
    /\ sampled = <<>>
    /\ AuxIdle

\* hard_dedupe(hard_dedupe(T)): the returned list is the argument of the
\* second call, with the same thresholds
DedupeAgain ==
    /\ pc = "done"
    /\ run = 1
    /\ turns' = result
    /\ prev_result' = result
    /\ run' = 2
    /\ result' = <<>>
    /\ sorted_turns' = <<>>
    /\ keep' = <<>>
    /\ i' = 0
    /\ j' = 0
    /\ pc' = "call"
    /\ UNCHANGED <<iou_thresh, emb_cos_thresh, err, auxVars, labels, score_mode, external_cmd,
                   max_pairs, score_threshold, ecapa_loadable, cand, cidx, parent, pairs, pidx,
                   scores, rng_pos, rng_stream, segfile, called, verdict, vstable, prev_labels,
                   prev_sampled, sampled>>

NextTwice ==
    \/ DedupeEnter
    \/ DedupeEmptyRaises
    \/ SkipAnchor
    \/ StartScan
    \/ ScanExhausted
    \/ SkipDropped
    \/ SkipOtherSpeaker
    \/ EarlyStop
    \/ NotDuplicate
    \/ DropLater
    \/ DropAnchor
    \/ DedupeReturn
    \/ DedupeAgain

SpecTwice == InitTwice /\ [][NextTwice]_vars

(***************************************************************************)
(* iou_time called on its own                                              *)
(***************************************************************************)
MaxTick == 3

\* Interval end points, 5 s apart, in tenths of a second
Ticks == { k * 50 : k \in 0..MaxTick }

\* hard_dedupe's state while another component runs
DedupeIdle ==
    /\ turns = <<>>
    /\ iou_thresh = <<0, 1>>
    /\ emb_cos_thresh = <<0, 1>>
    /\ sorted_turns = <<>>
    /\ keep = <<>>
    /\ i = 0
    /\ j = 0

InitIou ==
    /\ pc = "call"
    /\ iou_args \in Ticks \X Ticks \X Ticks \X Ticks
    /\ iou_ret = None
    /\ result = <<>>
    /\ err = "none"
    /\ DedupeIdle
    /\ RefineIdle
    /\ DiscoverIdle
    /\ ClipIdle
    /\ ProgIdle

\* lines 10-12
IouReturn ==
    /\ pc = "call"
    /\ iou_ret' = iou_time(iou_args[1], iou_args[2], iou_args[3], iou_args[4])
    /\ pc' = "done"
    /\ UNCHANGED <<turns, result, err, dedupeVars, refineVars, iou_args, discoverVars, clipVars, progVars>>

NextIou == IouReturn

SpecIou == InitIou /\ [][NextIou]_vars

(***************************************************************************)
(* refine_by_verification (src/src/blink_stitch/cluster.py)                *)
(***************************************************************************)
Noise == -1

\* Input domains of the refiner
RefMaxTurns == 4
Labels == { Noise, 0, 1, 2 }
RefEmbs == { <<2, 0>>, <<0, 1>> }
Scores == { 4, 9 }
ScoreThresholds == { 5 }
MaxPairsSet == { 1, 2 }
\* (score_mode, external_cmd, ecapa_loadable)
Backends ==
    { <<"ecapa", None, TRUE>>, <<"ecapa", None, FALSE>>,
      <<"external", "scorer {wav1} {wav2}", TRUE>>, <<"external", None, TRUE>> }

Config(b, mp, st) ==
    [score_mode |-> b[1], external_cmd |-> b[2], ecapa_loadable |-> b[3],
     max_pairs |-> mp, vstable |-> st]

\* Lists of up to ConfMaxTurns turns are refined with any labels under
\* every configuration; longer ones with every turn clustered under the
\* base configuration: in-process scorer, one pair per candidate, a
\* verifier that is a function of the pair.
ConfMaxTurns == 3
BaseConfig == Config(<<"ecapa", None, TRUE>>, 1, TRUE)
Configs(n) ==
    IF n <= ConfMaxTurns
    THEN { Config(b, mp, st) : b \in Backends, mp \in MaxPairsSet, st \in BOOLEAN }
    ELSE { BaseConfig }
LabelArrays(n) ==
    IF n <= ConfMaxTurns THEN [1..n -> Labels] ELSE [1..n -> Labels \ { Noise }]

RefTurn(k, e) == [id |-> k, emb |-> e, clip_path |-> "clip.mp4", start |-> k, end |-> k + 1]

\* The gate of line 129, 0.6
Gate == <<3, 5>>

\* Normalized rows are kept as integer vectors in units of 1 / UnitDen
UnitDen == 2

ISqrt(n) == CHOOSE r \in 0..n : r * r = n

\* sklearn normalize, one row (line 119): x / |x|, a zero row stays zero
NormalizeRow(x) ==
    LET nrm == ISqrt(Dot(x, x))
    IN  IF nrm = 0 THEN x ELSE [k \in 1..Len(x) |-> (x[k] * UnitDen) \div nrm]

RECURSIVE SetToSeq(_)
SetToSeq(S) ==
    IF S = {} THEN <<>>
    ELSE LET m == CHOOSE x \in S : \A y \in S : x <= y
         IN  <<m>> \o SetToSeq(S \ {m})

\* lines 112-115: members of each cluster, by ascending turn index
ClusterKeys(labs) == { labs[k] : k \in 1..Len(labs) } \ { Noise }
Members(labs, c) == SetToSeq({ k \in 1..Len(labs) : labs[k] = c })

\* line 124
SortedKeys_desc(labs) ==
    LET up == SetToSeq(ClusterKeys(labs))
    IN  [k \in 1..Len(up) |-> up[Len(up) + 1 - k]]
SortedKeys(labs) == SetToSeq(ClusterKeys(labs))

RECURSIVE SumRows(_, _)
SumRows(ts, idxs) ==
    IF Len(idxs) = 0 THEN [k \in 1..Len(RefTurn(0, <<0, 0>>).emb) |-> 0]
    ELSE LET rest == SumRows(ts, Tail(idxs))
             row  == NormalizeRow(ts[Head(idxs)].emb)
         IN  [k \in 1..Len(row) |-> row[k] + rest[k]]

\* lines 120, 128: the centroid of c is the normalized mean of its
\* normalized rows, so it is MemberSum / |MemberSum| (zero when the sum is
\* zero), and the cosine of two centroids is d / sqrt(n) with
\* d = S1.S2 and n = |S1|^2 |S2|^2, or 0 when n = 0.
CentroidSim(ts, labs, c1, c2) ==
    LET s1 == SumRows(ts, Members(labs, c1))
        s2 == SumRows(ts, Members(labs, c2))
    IN  [c1 |-> c1, c2 |-> c2, d |-> Dot(s1, s2), n |-> Dot(s1, s1) * Dot(s2, s2)]

\* line 129: s >= 0.6
PassesGate(x) ==
    /\ x.n > 0
    /\ x.d >= 0
    /\ x.d * x.d * Gate[2] * Gate[2] >= Gate[1] * Gate[1] * x.n

\* s of x < s of y, for candidates (s > 0)
SimLess(x, y) == x.d * x.d * y.n < y.d * y.d * x.n

\* line 131: stable sort by descending s
RECURSIVE InsertDesc(_, _)
InsertDesc(s, x) ==
    IF Len(s) = 0 THEN <<x>>
    ELSE IF SimLess(s[Len(s)], x) THEN Append(InsertDesc(SubSeq(s, 1, Len(s) - 1), x), s[Len(s)])
    ELSE Append(s, x)

RECURSIVE SortDesc(_)
SortDesc(s) ==
    IF Len(s) = 0 THEN <<>>
    ELSE InsertDesc(SortDesc(SubSeq(s, 1, Len(s) - 1)), s[Len(s)])

\* lines 125-130: the pairs (keys[i], keys[j]), i < j, in loop order
RECURSIVE PairsFrom(_, _, _)
PairsFrom(keys, a, b) ==
    IF a >= Len(keys) THEN <<>>
    ELSE IF b > Len(keys) THEN PairsFrom(keys, a + 1, a + 2)
    ELSE <<<<keys[a], keys[b]>>>> \o PairsFrom(keys, a, b + 1)

RECURSIVE GateFilter(_, _, _)
GateFilter(ts, labs, ps) ==
    IF Len(ps) = 0 THEN <<>>
    ELSE LET x == CentroidSim(ts, labs, Head(ps)[1], Head(ps)[2])
         IN  (IF PassesGate(x) THEN <<x>> ELSE <<>>) \o GateFilter(ts, labs, Tail(ps))

\* lines 123-131
Candidates(ts, labs) == SortDesc(GateFilter(ts, labs, PairsFrom(SortedKeys(labs), 1, 2)))

\* lines 134-138: find with path halving, returning <<root, parent>>
RECURSIVE Find(_, _)
Find(par, x) ==
    IF par[x] = x THEN <<x, par>>
    ELSE LET p2 == [par EXCEPT ![x] = par[par[x]]]
         IN  Find(p2, p2[x])

\* lines 139-141
Union_attachnode(par, a, b) == [par EXCEPT ![b] = a]
Union(par, a, b) ==
    LET fa == Find(par, a)
        fb == Find(fa[2], b)
    IN  IF fa[1] # fb[1] THEN [fb[2] EXCEPT ![fb[1]] = fa[1]] ELSE fb[2]

IndexOf(s, x) == CHOOSE k \in 1..Len(s) : s[k] = x
Range(s) == { s[k] : k \in 1..Len(s) }

\* lines 164-167: roots in the order in which they get their new id
RECURSIVE AssignIds(_, _, _)
AssignIds_byroot(keys, par, roots) ==
    <<par, SetToSeq({ Find(par, keys[k])[1] : k \in 1..Len(keys) })>>
AssignIds(keys, par, roots) ==
    IF Len(keys) = 0 THEN <<par, roots>>
    ELSE LET f == Find(par, Head(keys))
         IN  AssignIds(Tail(keys), f[2],
                       IF f[1] \in Range(roots) THEN roots ELSE Append(roots, f[1]))

\* lines 168-171
RECURSIVE Relabel(_, _, _, _)
Relabel_sparse(labs, k, par, roots) ==
    [m \in 1..(Len(labs) - k + 1) |->
        IF labs[m + k - 1] = Noise THEN Noise ELSE Find(par, labs[m + k - 1])[1]]
Relabel(labs, k, par, roots) ==
    IF k > Len(labs) THEN <<>>
    ELSE IF labs[k] = Noise THEN <<Noise>> \o Relabel(labs, k + 1, par, roots)
    ELSE LET f == Find(par, labs[k])
         IN  <<IndexOf(roots, f[1]) - 1>> \o Relabel(labs, k + 1, f[2], roots)

\* lines 161-172
NewLabels_noisy(labs, par) == [k \in 1..Len(labs) |-> 0]
NewLabels(labs, par) ==
    LET a == AssignIds(SortedKeys(labs), par, <<>>)
    IN  Relabel(labs, 1, a[1], a[2])

RECURSIVE SumSeq(_)
SumSeq(s) == IF Len(s) = 0 THEN 0 ELSE Head(s) + SumSeq(Tail(s))

\* line 158: np.mean(scores) >= score_threshold (nan, for no score, is not)
MeanPasses(scs, thr) == Len(scs) > 0 /\ SumSeq(scs) >= thr * Len(scs)

\* line 156: which scorer is used, and whether it can score at all
BackendAvailable ==
    IF score_mode = "ecapa" THEN ecapa_loadable ELSE external_cmd # None

PairKey(a, b) == { a, b }

\* What the verifier reads for turn k: the file seg_<k>.wav, which holds
\* the turn's own segment or whatever was in the cache directory before
Audio(seg, k) == <<k, seg[k]>>

InitRefine ==
    /\ pc = "call"
    /\ \E n \in 0..RefMaxTurns :
        /\ \E es \in [1..n -> RefEmbs] : turns = [k \in 1..n |-> RefTurn(k, es[k])]
        /\ labels \in LabelArrays(n)
        /\ segfile = [k \in 1..n |-> "absent"]
        /\ \E c \in Configs(n) :
            /\ score_mode = c.score_mode
            /\ external_cmd = c.external_cmd
            /\ ecapa_loadable = c.ecapa_loadable
            /\ max_pairs = c.max_pairs
            /\ vstable = c.vstable
    /\ score_threshold \in ScoreThresholds
    /\ cand = <<>>
    /\ cidx = 0
    /\ parent = <<>>
    /\ pairs = <<>>
    /\ pidx = 0
    /\ scores = <<>>
    /\ rng_pos = 0
    /\ rng_stream = <<>>
    /\ called = {}
    /\ verdict = <<>>
    /\ run = 1
    /\ prev_labels = <<>>
    /\ prev_sampled = <<>>
    /\ prev_result = <<>>
    /\ sampled = <<>>
    /\ result = <<>>
    /\ err = "none"
    /\ iou_thresh = <<0, 1>>
    /\ emb_cos_thresh = <<0, 1>>
    /\ sorted_turns = <<>>
    /\ keep = <<>>
    /\ i = 0
    /\ j = 0
    /\ AuxIdle

\* line 116 with ensure_dir moved in front of the test
RefineNoClusters_mkdir ==
    /\ pc = "call"
    /\ ClusterKeys(labels) = {}
    /\ result' = labels
    /\ called' = called \cup { "ensure_dir" }
    /\ pc' = "done"
    /\ UNCHANGED <<turns, err, dedupeVars, auxVars, labels, score_mode, external_cmd, max_pairs,
                   score_threshold, ecapa_loadable, vstable, cand, cidx, parent, pairs, pidx,
                   scores, rng_pos, rng_stream, segfile, verdict, run, prev_labels,
                   prev_sampled, prev_result, sampled>>

\* line 116: no cluster, the labels are returned as they are
RefineNoClusters ==
    /\ pc = "call"
    /\ ClusterKeys(labels) = {}
    /\ result' = labels
    /\ pc' = "done"
    /\ UNCHANGED <<turns, err, dedupeVars, auxVars, labels, score_mode, external_cmd, max_pairs,
                   score_threshold, ecapa_loadable, vstable, cand, cidx, parent, pairs, pidx, scores,
                   rng_pos, rng_stream, segfile, called, verdict, run, prev_labels,
                   prev_sampled, prev_result, sampled>>

\* lines 118-144 with a generator that is not re-seeded at each call
RefineEnter_unseeded ==
    /\ pc = "call"
    /\ ClusterKeys(labels) # {}
    /\ cand' = Candidates(turns, labels)
    /\ parent' = [k \in ClusterKeys(labels) |-> k]
    /\ called' = called \cup { "ensure_dir" }
    /\ rng_pos' = rng_pos
    /\ cidx' = 1
    /\ pc' = "cand"
    /\ UNCHANGED <<turns, result, err, dedupeVars, auxVars, labels, score_mode, external_cmd, max_pairs,
                   score_threshold, ecapa_loadable, vstable, pairs, pidx, scores, rng_stream,
                   segfile, verdict, run, prev_labels,
                   prev_sampled, prev_result, sampled>>

\* lines 118-144: candidates, union-find, cache directory, generator
RefineEnter ==
    /\ pc = "call"
    /\ ClusterKeys(labels) # {}
    /\ cand' = Candidates(turns, labels)
    /\ parent' = [k \in ClusterKeys(labels) |-> k]
    /\ called' = called \cup { "ensure_dir" }
    /\ rng_pos' = 0
    /\ cidx' = 1
    /\ pc' = "cand"
    /\ UNCHANGED <<turns, result, err, dedupeVars, auxVars, labels, score_mode, external_cmd, max_pairs,
                   score_threshold, ecapa_loadable, vstable, pairs, pidx, scores, rng_stream, segfile,
                   verdict, run, prev_labels,
                   prev_sampled, prev_result, sampled>>

\* line 148: max_pairs times rng.choice(a), rng.choice(b).  The generator
\* is seeded with 42 at each call, so the draw at a given position from a
\* list of a given length is the same in every call; rng_stream records
\* the draws seen so far (a draw from a one-element list has one outcome).
DrawKey(pos, len) == <<pos, len>>
SamplePairs ==
    /\ pc = "cand"
    /\ cidx <= Len(cand)
    /\ LET a == Members(labels, cand[cidx].c1)
           b == Members(labels, cand[cidx].c2)
           ka(k) == DrawKey(rng_pos + 2 * k - 1, Len(a))
           kb(k) == DrawKey(rng_pos + 2 * k, Len(b))
       IN  \E d \in [1..max_pairs -> (1..Len(a)) \X (1..Len(b))] :
             /\ \A k \in 1..max_pairs :
                  /\ ka(k) \in DOMAIN rng_stream => rng_stream[ka(k)] = d[k][1]
                  /\ kb(k) \in DOMAIN rng_stream => rng_stream[kb(k)] = d[k][2]
             /\ LET new == { ka(k) : k \in { m \in 1..max_pairs : Len(a) > 1 } }
                           \cup { kb(k) : k \in { m \in 1..max_pairs : Len(b) > 1 } }
                IN  rng_stream' =
                      [key \in DOMAIN rng_stream \cup new |->
                         IF key \in DOMAIN rng_stream THEN rng_stream[key]
                         ELSE LET k == (key[1] - rng_pos + 1) \div 2
                              IN  IF key = ka(k) THEN d[k][1] ELSE d[k][2]]
             /\ pairs' = [k \in 1..max_pairs |-> <<a[d[k][1]], b[d[k][2]]>>]
    /\ sampled' = sampled \o pairs'
    /\ rng_pos' = rng_pos + 2 * max_pairs
    /\ pidx' = 1
    /\ scores' = <<>>
    /\ pc' = "pair"
    /\ UNCHANGED <<turns, result, err, dedupeVars, auxVars, labels, score_mode, external_cmd, max_pairs,
                   score_threshold, ecapa_loadable, vstable, cand, cidx, parent, segfile, called,
                   verdict, run, prev_labels, prev_sampled, prev_result>>

\* lines 152-155: the segments of the pair that are not in the cache
Missing(p) == { k \in { p[1], p[2] } : segfile[k] = "absent" }
Materialized(p) == [k \in DOMAIN segfile |-> IF k \in Missing(p) THEN "own" ELSE segfile[k]]
ExtractCalls(p) == IF Missing(p) = {} THEN {} ELSE { "clip_to_segment_wav" }

\* line 156: the two files handed to the scorer
ScoredKey(p) == PairKey(Audio(Materialized(p), p[1]), Audio(Materialized(p), p[2]))

\* lines 154-155: clip_to_segment_wav raises (ffmpeg fails); the segment
\* of the first turn is in the cache when it is the second one that fails
ExtractFails ==
    /\ pc = "pair"
    /\ pidx <= Len(pairs)
    /\ \E k \in Missing(pairs[pidx]) :
         segfile' = [m \in DOMAIN segfile |->
                       IF m \in Missing(pairs[pidx]) /\ m = pairs[pidx][1] /\ k # m
                       THEN "own" ELSE segfile[m]]
    /\ called' = called \cup { "clip_to_segment_wav" }
    /\ err' = "extract_failed"
    /\ pc' = "raised"
    /\ UNCHANGED <<turns, result, dedupeVars, auxVars, labels, score_mode, external_cmd, max_pairs,
                   score_threshold, ecapa_loadable, vstable, cand, cidx, parent, pairs, pidx, scores,
                   rng_pos, rng_stream, verdict, run, prev_labels,
                   prev_sampled, prev_result, sampled>>

\* line 156 with no usable backend: EncoderClassifier.from_hparams raises,
\* or external_cmd is None and line 64 raises AttributeError
BackendUnavailable ==
    /\ pc = "pair"
    /\ pidx <= Len(pairs)
    /\ ~BackendAvailable
    /\ segfile' = Materialized(pairs[pidx])
    /\ called' = called \cup ExtractCalls(pairs[pidx])
    /\ err' = "backend_unavailable"
    /\ pc' = "raised"
    /\ UNCHANGED <<turns, result, dedupeVars, auxVars, labels, score_mode, external_cmd, max_pairs,
                   score_threshold, ecapa_loadable, vstable, cand, cidx, parent, pairs, pidx, scores,
                   rng_pos, rng_stream, verdict, run, prev_labels,
                   prev_sampled, prev_result, sampled>>

\* line 156: the verifier raises for this pair (lines 65-66, or the model)
VerifierFails ==
    /\ pc = "pair"
    /\ pidx <= Len(pairs)
    /\ BackendAvailable
    /\ ScoredKey(pairs[pidx]) \notin DOMAIN verdict
    /\ segfile' = Materialized(pairs[pidx])
    /\ called' = called \cup ExtractCalls(pairs[pidx]) \cup { "verifier" }
    /\ err' = "verifier_failed"
    /\ pc' = "raised"
    /\ UNCHANGED <<turns, result, dedupeVars, auxVars, labels, score_mode, external_cmd, max_pairs,
                   score_threshold, ecapa_loadable, vstable, cand, cidx, parent, pairs, pidx, scores,
                   rng_pos, rng_stream, verdict, run, prev_labels,
                   prev_sampled, prev_result, sampled>>

\* lines 154-157: both segments are in the cache, the verifier returns s
ScorePair ==
    /\ pc = "pair"
    /\ pidx <= Len(pairs)
    /\ BackendAvailable
    /\ LET key == ScoredKey(pairs[pidx])
       IN  \E s \in Scores :
             /\ key \in DOMAIN verdict => verdict[key] = s
             /\ verdict' = IF vstable
                           THEN [q \in DOMAIN verdict \cup { key } |->
                                   IF q \in DOMAIN verdict THEN verdict[q] ELSE s]
                           ELSE verdict
             /\ scores' = Append(scores, s)
    /\ segfile' = Materialized(pairs[pidx])
    /\ called' = called \cup ExtractCalls(pairs[pidx]) \cup { "verifier" }
    /\ pidx' = pidx + 1
    /\ UNCHANGED <<pc, turns, result, err, dedupeVars, auxVars, labels, score_mode, external_cmd,
                   max_pairs, score_threshold, ecapa_loadable, vstable, cand, cidx, parent, pairs,
                   rng_pos, rng_stream, run, prev_labels,
                   prev_sampled, prev_result, sampled>>

\* lines 158-159: union(c1, c2)
MergeCandidate ==
    /\ pc = "pair"
    /\ pidx > Len(pairs)
    /\ MeanPasses(scores, score_threshold)
    /\ parent' = Union(parent, cand[cidx].c1, cand[cidx].c2)
    /\ cidx' = cidx + 1
    /\ pc' = "cand"
    /\ UNCHANGED <<turns, result, err, dedupeVars, auxVars, labels, score_mode, external_cmd, max_pairs,
                   score_threshold, ecapa_loadable, vstable, cand, pairs, pidx, scores, rng_pos,
                   rng_stream, segfile, called, verdict, run, prev_labels,
                   prev_sampled, prev_result, sampled>>

\* line 158: the mean is below the threshold
RejectCandidate ==
    /\ pc = "pair"
    /\ pidx > Len(pairs)
    /\ ~MeanPasses(scores, score_threshold)
    /\ cidx' = cidx + 1
    /\ pc' = "cand"
    /\ UNCHANGED <<turns, result, err, dedupeVars, auxVars, labels, score_mode, external_cmd, max_pairs,
                   score_threshold, ecapa_loadable, vstable, cand, parent, pairs, pidx, scores, rng_pos,
                   rng_stream, segfile, called, verdict, run, prev_labels,
                   prev_sampled, prev_result, sampled>>

\* lines 161-172
RefineReturn ==
    /\ pc = "cand"
    /\ cidx > Len(cand)
    /\ result' = NewLabels(labels, parent)
    /\ pc' = "done"
    /\ UNCHANGED <<turns, err, dedupeVars, auxVars, labels, score_mode, external_cmd, max_pairs,
                   score_threshold, ecapa_loadable, vstable, cand, cidx, parent, pairs, pidx, scores,
                   rng_pos, rng_stream, segfile, called, verdict, run, prev_labels,
                   prev_sampled, prev_result, sampled>>

\* The refiner is run again on the labels it returned: same turns, same
\* thresholds, same max_pairs, same cache directory, and a verifier that
\* answers as before.
RefineAgain ==
    /\ pc = "done"
    /\ run = 1
    /\ vstable
    /\ prev_labels' = labels
    /\ labels' = result
    /\ run' = 2
    /\ pc' = "call"
    /\ result' = <<>>
    /\ cand' = <<>>
    /\ cidx' = 0
    /\ parent' = <<>>
    /\ pairs' = <<>>
    /\ pidx' = 0
    /\ scores' = <<>>
    /\ called' = {}
    /\ prev_sampled' = sampled
    /\ prev_result' = result
    /\ sampled' = <<>>
    /\ UNCHANGED <<turns, err, dedupeVars, auxVars, score_mode, external_cmd, max_pairs,
                   score_threshold, ecapa_loadable, vstable, rng_pos, rng_stream, segfile,
                   verdict>>

NextRefine ==
    \/ RefineNoClusters
    \/ RefineEnter
    \/ SamplePairs
    \/ ExtractFails
    \/ BackendUnavailable
    \/ VerifierFails
    \/ ScorePair
    \/ MergeCandidate
    \/ RejectCandidate
    \/ RefineReturn
    \/ RefineAgain

SpecRefine == InitRefine /\ [][NextRefine]_vars

(***************************************************************************)
(* refine_by_verification called twice with the same arguments             *)
(***************************************************************************)
RepMaxTurns == 3

\* What seg_cache_dir may hold before a call: nothing for a turn index, or
\* a seg_<i>.wav written earlier for another turn list
CacheContents(n) == [1..n -> { "absent", "stale" }]

\* Lists shorter than RepMaxTurns take any embeddings, labels and cache
\* content; the longest ones have one embedding, every turn in cluster 0
\* or 1, and a cache that is empty or stale throughout.
RepeatInputs(n) ==
    IF n < RepMaxTurns
    THEN { [embs |-> es, labels |-> ls, cache |-> c] :
             es \in [1..n -> RefEmbs], ls \in [1..n -> Labels \ { 2 }], c \in CacheContents(n) }
    ELSE { [embs |-> [k \in 1..n |-> <<2, 0>>], labels |-> ls, cache |-> [k \in 1..n |-> c]] :
             ls \in [1..n -> { 0, 1 }], c \in { "absent", "stale" } }

InitRepeat ==
    /\ pc = "call"
    /\ \E n \in 0..RepMaxTurns :
        \E x \in RepeatInputs(n) :
            /\ turns = [k \in 1..n |-> RefTurn(k, x.embs[k])]
            /\ labels = x.labels
            /\ segfile = x.cache
    /\ \E b \in { x \in Backends : x[3] /\ (x[1] = "external" => x[2] # None) } :
        /\ score_mode = b[1]
        /\ external_cmd = b[2]
        /\ ecapa_loadable = b[3]
    /\ max_pairs \in MaxPairsSet
    /\ vstable = TRUE
    /\ score_threshold \in ScoreThresholds
    /\ cand = <<>>
    /\ cidx = 0
    /\ parent = <<>>
    /\ pairs = <<>>
    /\ pidx = 0
    /\ scores = <<>>
    /\ rng_pos = 0
    /\ rng_stream = <<>>
    /\ called = {}
    /\ verdict = <<>>
    /\ run = 1
    /\ prev_labels = <<>>
    /\ prev_sampled = <<>>
    /\ prev_result = <<>>
    /\ sampled = <<>>
    /\ result = <<>>
    /\ err = "none"
    /\ iou_thresh = <<0, 1>>
    /\ emb_cos_thresh = <<0, 1>>
    /\ sorted_turns = <<>>
    /\ keep = <<>>
    /\ i = 0
    /\ j = 0
    /\ AuxIdle

\* The refiner is called again with the arguments of the first call; the
\* cache directory is as the first call left it, or has been cleared in
\* between.
RepeatCall ==
    /\ pc = "done"
    /\ run = 1
    /\ segfile' \in { segfile, [k \in DOMAIN segfile |-> "absent"] }
    /\ prev_labels' = labels
    /\ prev_sampled' = sampled
    /\ prev_result' = result
    /\ sampled' = <<>>
    /\ run' = 2
    /\ pc' = "call"
    /\ result' = <<>>
    /\ cand' = <<>>
    /\ cidx' = 0
    /\ parent' = <<>>
    /\ pairs' = <<>>
    /\ pidx' = 0
    /\ scores' = <<>>
    /\ called' = {}
    /\ UNCHANGED <<turns, err, dedupeVars, auxVars, labels, score_mode, external_cmd, max_pairs,
                   score_threshold, ecapa_loadable, vstable, rng_pos, rng_stream, verdict>>

NextRepeat ==
    \/ RefineNoClusters
    \/ RefineEnter
    \/ SamplePairs
    \/ ExtractFails
    \/ VerifierFails
    \/ ScorePair
    \/ MergeCandidate
    \/ RejectCandidate
    \/ RefineReturn
    \/ RepeatCall

SpecRepeat == InitRepeat /\ [][NextRepeat]_vars

(***************************************************************************)
(* Media discovery: discover_media_paths (src/src/blink_stitch/helpers.py) *)
(* called by BlinkMulticameraStitch._discover_input_files                  *)
(* (src/src/blink_stitch/main.py)                                          *)
(***************************************************************************)
MaxFiles == 3
MaxInputs == 2

\* lines 114-115
VIDEO_EXTS == { ".mp4", ".mov", ".avi", ".mkv", ".mpg", ".mpeg", ".ts" }
AUDIO_EXTS == { ".wav", ".mp3", ".aac", ".m4a", ".flac", ".ogg" }

\* The names of files and directories, in the order of their strings.  No
\* name is a prefix of another one used at the same depth, so comparing two
\* paths name by name orders them as their strings are ordered.
NameOrder ==
    << "..", ".h.wav", ".hd", ".y.flac", "B.MP4", "a.mp4", "audio", "c.wav", "clips",
       "d", "data", "e", "l.flac", "ln", "n.txt", "store", "v.mp4", "x.wav" >>

\* name.startswith(".")
StartsWithDot(name) == name \in { "..", ".h.wav", ".hd", ".y.flac" }

\* Path(name).suffix
Suffix(name) ==
    CASE name \in { "a.mp4", "v.mp4" } -> ".mp4"
      [] name = "B.MP4" -> ".MP4"
      [] name \in { "c.wav", ".h.wav", "x.wav" } -> ".wav"
      [] name \in { "l.flac", ".y.flac" } -> ".flac"
      [] name = "n.txt" -> ".txt"
      [] OTHER -> ""

\* str.lower()
Lower(e) ==
    CASE e = ".MP4" -> ".mp4"
      [] e = "MP4" -> "mp4"
      [] OTHER -> e

\* lines 117-122
normalize_ext(name) == Lower(Suffix(name))

\* lines 148-149 (and main.py 198-199): add the leading dot
WithDot(e) == IF e = "mp4" THEN ".mp4" ELSE e

\* The directory "ln" is a symbolic link to the directory data/store
IsSymlinkDir(name) == name = "ln"

Last(sq) == sq[Len(sq)]

\* A file: the input directory it is under ("R" is data/clips, "S" is
\* data/audio), its path below that directory, and whether the file itself
\* is a symbolic link (to a file of the same name in data/store).
File(r, rel, link) == [root |-> r, rel |-> rel, link |-> link]

FilePool ==
    { File("R", <<"a.mp4">>, FALSE),
      File("R", <<"c.wav">>, FALSE),
      File("R", <<".h.wav">>, FALSE),
      File("R", <<"n.txt">>, FALSE),
      File("R", <<"l.flac">>, TRUE),
      File("R", <<"d", "B.MP4">>, FALSE),
      File("R", <<"d", "c.wav">>, FALSE),
      File("R", <<".hd", "a.mp4">>, FALSE),
      File("R", <<"ln", "a.mp4">>, FALSE),
      File("R", <<"d", "e", "a.mp4">>, FALSE),
      File("S", <<"x.wav">>, FALSE),
      File("S", <<".y.flac">>, FALSE),
      File("S", <<"v.mp4">>, FALSE) }

\* An input path: its components as given, and what it names
InputPath(parts, r, rel) == [parts |-> parts, root |-> r, rel |-> rel]
DirR == InputPath(<<"data", "clips">>, "R", <<>>)
\* the same directory given as ../clips
DirRup == InputPath(<<"..", "clips">>, "R", <<>>)
DirS == InputPath(<<"data", "audio">>, "S", <<>>)
FileA == InputPath(<<"data", "clips", "a.mp4">>, "R", <<"a.mp4">>)
InputPool == { DirR, DirRup, DirS, FileA }

\* Config values.  An optional value is a sequence of no element (None, or a
\* missing key) or of one; input_paths <<>> stands for a missing key or an
\* empty list.
Configurations ==
    [input_paths : UNION { [1..n -> InputPool] : n \in 0..MaxInputs },
     audio_dir : { <<>>, <<DirS>> },
     recursive_discovery : { <<>>, <<FALSE>> },
     video_extensions : { <<>>, << <<"MP4">> >> }]

\* Path.resolve()
Resolve(n) ==
    IF n.link THEN <<"data", "store", Last(n.rel)>>
    ELSE IF IsSymlinkDir(Head(n.rel)) THEN <<"data", "store">> \o Tail(n.rel)
    ELSE (IF n.root = "R" THEN <<"data", "clips">> ELSE <<"data", "audio">>) \o n.rel

\* Path.is_dir(), is_file(); the two directories exist
NodeOf(p) == CHOOSE n \in fs : n.root = p.root /\ n.rel = p.rel
IsDir(p) == p.rel = <<>>
IsFile(p) == p.rel # <<>> /\ \E n \in fs : n.root = p.root /\ n.rel = p.rel

\* lines 142-150
Chosen ==
    IF exts = <<>> THEN VIDEO_EXTS \cup AUDIO_EXTS
    ELSE { WithDot(Lower(exts[1][k])) : k \in 1..Len(exts[1]) }

\* sorted() on path strings
RECURSIVE PathLess(_, _)
PathLess(p, q) ==
    IF Len(q) = 0 THEN FALSE
    ELSE IF Len(p) = 0 THEN TRUE
    ELSE IF Head(p) = Head(q) THEN PathLess(Tail(p), Tail(q))
    ELSE \E a, b \in 1..Len(NameOrder) :
            a < b /\ NameOrder[a] = Head(p) /\ NameOrder[b] = Head(q)

RECURSIVE SortPaths(_)
SortPaths(S) ==
    IF S = {} THEN <<>>
    ELSE LET m == CHOOSE x \in S : \A y \in S \ { x } : PathLess(x, y)
         IN  <<m>> \o SortPaths(S \ { m })

RECURSIVE InsertPath(_, _)
InsertPath(sq, x) ==
    IF Len(sq) = 0 THEN <<x>>
    ELSE IF PathLess(x, Last(sq)) THEN Append(InsertPath(SubSeq(sq, 1, Len(sq) - 1), x), Last(sq))
    ELSE Append(sq, x)

RECURSIVE SortList(_)
SortList(sq) ==
    IF Len(sq) = 0 THEN <<>>
    ELSE InsertPath(SortList(SubSeq(sq, 1, Len(sq) - 1)), Last(sq))

\* line 165: rglob("*") does not descend into a symlinked directory
RGlob(p) ==
    { n \in fs : n.root = p.root /\ \A k \in 1..(Len(n.rel) - 1) : ~IsSymlinkDir(n.rel[k]) }

\* lines 166-177: child.parts are the components of the input path followed
\* by those below it
RecursiveFound(p) ==
    { Resolve(n) : n \in
        { m \in RGlob(p) :
            /\ ~m.link
            /\ ~\E part \in Range(p.parts \o m.rel) : StartsWithDot(part)
            /\ normalize_ext(Last(m.rel)) \in Chosen } }

\* lines 184-189
top_files(p) ==
    { n \in fs :
        /\ n.root = p.root
        /\ Len(n.rel) = 1
        /\ ~StartsWithDot(n.rel[1])
        /\ ~n.link
        /\ normalize_ext(n.rel[1]) \in Chosen }

\* lines 192-194
selected_all(top) == top
selected(top) ==
    LET top_audio == { f \in top : normalize_ext(Last(f.rel)) \in { ".wav", ".flac" } }
    IN  IF top_audio # {} THEN top_audio ELSE top

\* lines 199-207
SubdirFiles(p) ==
    { n \in fs :
        /\ n.root = p.root
        /\ Len(n.rel) = 2
        /\ ~IsSymlinkDir(n.rel[1])
        /\ ~StartsWithDot(n.rel[1])
        /\ ~StartsWithDot(n.rel[2])
        /\ ~n.link
        /\ normalize_ext(n.rel[2]) \in Chosen }

\* main.py lines 185-201
MainExts(vexts) ==
    IF vexts = <<>> \/ vexts = << <<>> >> THEN <<>>
    ELSE << [k \in 1..Len(vexts[1]) |-> WithDot(Lower(vexts[1][k]))] >>

\* main.py lines 212-213: glob("*.wav") and glob("*.flac") match by the end
\* of the name, hidden files and links included
LegacyGlob(dir, suffix) ==
    { Resolve(n) : n \in { m \in fs : m.root = dir.root /\ Len(m.rel) = 1 /\ Suffix(m.rel[1]) = suffix } }

\* A directory listing comes in no particular order
Orderings(S) == { sq \in [1..Cardinality(S) -> S] : Range(sq) = S }

\* main.py line 221
RECURSIVE AudioOnly(_)
AudioOnly(sq) ==
    IF Len(sq) = 0 THEN <<>>
    ELSE IF normalize_ext(Last(Head(sq))) \in { ".wav", ".flac" }
         THEN <<Head(sq)>> \o AudioOnly(Tail(sq))
    ELSE AudioOnly(Tail(sq))

InitDiscover ==
    /\ pc = "call"
    /\ fs \in { F \in SUBSET FilePool : Cardinality(F) <= MaxFiles }
    /\ config \in Configurations
    /\ paths = <<>>
    /\ recursive = TRUE
    /\ exts = <<>>
    /\ didx = 0
    /\ results = {}
    /\ discovered = <<>>
    /\ result = <<>>
    /\ err = "none"
    /\ DedupeIdle
    /\ RefineIdle
    /\ IouIdle
    /\ ClipIdle
    /\ ProgIdle

\* main.py lines 158-206: the arguments of discover_media_paths
MainEnter ==
    /\ pc = "call"
    /\ paths' = IF config.input_paths # <<>> THEN config.input_paths
                ELSE IF config.audio_dir # <<>> THEN <<config.audio_dir[1]>>
                ELSE <<>>
    /\ recursive' = IF config.recursive_discovery = <<>> THEN TRUE
                    ELSE config.recursive_discovery[1]
    /\ exts' = MainExts(config.video_extensions)
    /\ didx' = 1
    /\ results' = {}
    /\ pc' = "scan"
    /\ UNCHANGED <<turns, result, err, dedupeVars, refineVars, iouVars, clipVars, progVars, fs, config,
                   discovered>>

\* lines 155-157
SkipMissing ==
    /\ pc = "scan"
    /\ didx <= Len(paths)
    /\ ~IsDir(paths[didx])
    /\ ~IsFile(paths[didx])
    /\ didx' = didx + 1
    /\ UNCHANGED <<pc, turns, result, err, dedupeVars, refineVars, iouVars, clipVars, progVars, fs, config,
                   paths, recursive, exts, results, discovered>>

\* lines 158-161
AddFile ==
    /\ pc = "scan"
    /\ didx <= Len(paths)
    /\ IsFile(paths[didx])
    /\ results' = results \cup
                    (IF normalize_ext(Last(paths[didx].parts)) \in Chosen
                     THEN { Resolve(NodeOf(paths[didx])) } ELSE {})
    /\ didx' = didx + 1
    /\ UNCHANGED <<pc, turns, result, err, dedupeVars, refineVars, iouVars, clipVars, progVars, fs, config,
                   paths, recursive, exts, discovered>>

\* lines 163-177
ScanRecursive ==
    /\ pc = "scan"
    /\ didx <= Len(paths)
    /\ IsDir(paths[didx])
    /\ recursive
    /\ results' = results \cup RecursiveFound(paths[didx])
    /\ didx' = didx + 1
    /\ UNCHANGED <<pc, turns, result, err, dedupeVars, refineVars, iouVars, clipVars, progVars, fs, config,
                   paths, recursive, exts, discovered>>

\* lines 184-196
ScanTopLevel ==
    /\ pc = "scan"
    /\ didx <= Len(paths)
    /\ IsDir(paths[didx])
    /\ ~recursive
    /\ top_files(paths[didx]) # {}
    /\ results' = results \cup { Resolve(f) : f \in selected(top_files(paths[didx])) }
    /\ didx' = didx + 1
    /\ UNCHANGED <<pc, turns, result, err, dedupeVars, refineVars, iouVars, clipVars, progVars, fs, config,
                   paths, recursive, exts, discovered>>

\* lines 197-207
ScanSubdirs ==
    /\ pc = "scan"
    /\ didx <= Len(paths)
    /\ IsDir(paths[didx])
    /\ ~recursive
    /\ top_files(paths[didx]) = {}
    /\ results' = results \cup { Resolve(f) : f \in SubdirFiles(paths[didx]) }
    /\ didx' = didx + 1
    /\ UNCHANGED <<pc, turns, result, err, dedupeVars, refineVars, iouVars, clipVars, progVars, fs, config,
                   paths, recursive, exts, discovered>>

\* line 209, the list arriving at main.py line 206
HelperReturn ==
    /\ pc = "scan"
    /\ didx > Len(paths)
    /\ discovered' = SortPaths(results)
    /\ pc' = "returned"
    /\ UNCHANGED <<turns, result, err, dedupeVars, refineVars, iouVars, clipVars, progVars, fs, config,
                   paths, recursive, exts, didx, results>>

\* main.py lines 209-213
MainLegacyGlob ==
    /\ pc = "returned"
    /\ discovered = <<>>
    /\ config.audio_dir # <<>>
    /\ \E w \in Orderings(LegacyGlob(config.audio_dir[1], ".wav")),
          f \in Orderings(LegacyGlob(config.audio_dir[1], ".flac")) :
            discovered' = w \o f
    /\ pc' = "prefer"
    /\ UNCHANGED <<turns, result, err, dedupeVars, refineVars, iouVars, clipVars, progVars, fs, config,
                   paths, recursive, exts, didx, results>>

\* main.py line 209, condition false
MainKeepDiscovered ==
    /\ pc = "returned"
    /\ ~(discovered = <<>> /\ config.audio_dir # <<>>)
    /\ pc' = "prefer"
    /\ UNCHANGED <<turns, result, err, dedupeVars, refineVars, iouVars, clipVars, progVars, fs, config,
                   paths, recursive, exts, didx, results, discovered>>

\* main.py lines 220-224 and 237: the audio files only
MainPreferAudio ==
    /\ pc = "prefer"
    /\ ~recursive
    /\ AudioOnly(discovered) # <<>>
    /\ result' = SortList(AudioOnly(discovered))
    /\ pc' = "done"
    /\ UNCHANGED <<turns, err, dedupeVars, refineVars, iouVars, clipVars, progVars, fs, config,
                   paths, recursive, exts, didx, results, discovered>>

\* main.py lines 224 and 237
MainReturnAll ==
    /\ pc = "prefer"
    /\ recursive \/ AudioOnly(discovered) = <<>>
    /\ result' = SortList(discovered)
    /\ pc' = "done"
    /\ UNCHANGED <<turns, err, dedupeVars, refineVars, iouVars, clipVars, progVars, fs, config,
                   paths, recursive, exts, didx, results, discovered>>

NextDiscover ==
    \/ MainEnter
    \/ SkipMissing
    \/ AddFile
    \/ ScanRecursive
    \/ ScanTopLevel
    \/ ScanSubdirs
    \/ HelperReturn
    \/ MainLegacyGlob
    \/ MainKeepDiscovered
    \/ MainPreferAudio
    \/ MainReturnAll

SpecDiscover == InitDiscover /\ [][NextDiscover]_vars

(***************************************************************************)
(* process_one_clip (src/extract.py)                                       *)
(***************************************************************************)
MaxSegs == 2

\* Diarization segments <<start, end, label>>, in tenths of a second
SegPool == { <<0, 3, "A">>, <<0, 5, "B">>, <<10, 30, "A">> }

\* What a call finds: which cache files exist, what the diarization pipeline
\* answers, and the module global torch: the real package, on which
\* set_num_interop_threads raises RuntimeError once the number was set, or
\* the stub of lines 14-21, whose every attribute is a function doing nothing;
\* min_turn is cfg["min_turn_dur"]
ClipInputs ==
    [turns_cached : BOOLEAN,
     wav_cached : BOOLEAN,
     words_cached : BOOLEAN,
     torch : { "real", "stub" },
     interop_set : BOOLEAN,
     min_turn : { 5, 10 },
     segs : UNION { [1..n -> SegPool] : n \in 0..MaxSegs }]

InitClip ==
    /\ pc = "call"
    /\ clip \in { c \in ClipInputs : c.torch = "stub" => ~c.interop_set }
    /\ diar_turns = <<>>
    /\ embs = <<>>
    /\ trace = <<>>
    /\ result = <<>>
    /\ err = "none"
    /\ DedupeIdle
    /\ RefineIdle
    /\ IouIdle
    /\ DiscoverIdle
    /\ ProgIdle

\* lines 117-126, 163-171, 174-182: the try block.  set_num_interop_threads
\* raises on the real package when the number of inter-op threads was set
\* before; the object has no called_threads attribute, so the handler does
\* nothing.
LimitThreads(tr) ==
    tr \o <<"set_num_threads", "set_num_interop_threads">>
       \o (IF clip.torch = "real"
              /\ (clip.interop_set \/ "set_num_interop_threads" \in Range(tr))
           THEN <<"except">> ELSE <<>>)

\* lines 113-128
ClipCachedReturn ==
    /\ pc = "call"
    /\ clip.turns_cached
    /\ trace' = LimitThreads(trace) \o <<"gc.collect">>
    /\ result' \in { <<>>, << [seg |-> <<10, 30, "A">>, emb |-> 1] >> }
    /\ pc' = "done"
    /\ UNCHANGED <<turns, err, dedupeVars, refineVars, iouVars, discoverVars, progVars, clip, diar_turns,
                   embs>>

\* lines 130-148
ClipPrepare ==
    /\ pc = "call"
    /\ ~clip.turns_cached
    /\ trace' = trace
                  \o (IF clip.wav_cached THEN <<>> ELSE <<"extract_audio_16k_mono">>)
                  \o (IF clip.words_cached THEN <<>> ELSE <<"asr_transcribe_words">>)
    /\ pc' = "prepared"
    /\ UNCHANGED <<turns, result, err, dedupeVars, refineVars, iouVars, discoverVars, progVars, clip,
                   diar_turns, embs>>

\* lines 130-150: get_clip_start_epoch, the audio extraction, the
\* transcription or the diarization pipeline raises
ClipPrepareFails ==
    /\ pc = "call"
    /\ ~clip.turns_cached
    /\ err' = "Exception"
    /\ pc' = "raised"
    /\ UNCHANGED <<turns, result, dedupeVars, refineVars, iouVars, discoverVars, clipVars, progVars>>

\* lines 153-158
RECURSIVE LongEnough(_, _)
LongEnough(segs, min_turn) ==
    IF Len(segs) = 0 THEN <<>>
    ELSE IF Head(segs)[2] - Head(segs)[1] >= min_turn
         THEN <<Head(segs)>> \o LongEnough(Tail(segs), min_turn)
    ELSE LongEnough(Tail(segs), min_turn)

\* lines 150-161
ClipDiarize ==
    /\ pc = "prepared"
    /\ diar_turns' = LongEnough(clip.segs, clip.min_turn)
    /\ embs' = <<>>
    /\ pc' = "diarized"
    /\ UNCHANGED <<turns, result, err, dedupeVars, refineVars, iouVars, discoverVars, progVars, clip,
                   trace>>

\* lines 162-172
ClipNoTurns ==
    /\ pc = "diarized"
    /\ diar_turns = <<>>
    /\ trace' = LimitThreads(trace) \o <<"gc.collect">>
    /\ pc' = "build"
    /\ UNCHANGED <<turns, result, err, dedupeVars, refineVars, iouVars, discoverVars, progVars, clip,
                   diar_turns, embs>>

ClipEmbed_unlimited ==
    /\ pc = "diarized"
    /\ Len(embs) < Len(diar_turns)
    /\ trace' = trace \o <<"emb_infer", "gc.collect">>
    /\ embs' = Append(embs, Len(embs) + 1)
    /\ pc' = IF Len(embs') = Len(diar_turns) THEN "build" ELSE "diarized"
    /\ UNCHANGED <<turns, result, err, dedupeVars, refineVars, iouVars, discoverVars, progVars, clip,
                   diar_turns>>
\* lines 173-185, one turn
ClipEmbed ==
    /\ pc = "diarized"
    /\ Len(embs) < Len(diar_turns)
    /\ trace' = LimitThreads(trace) \o <<"emb_infer", "gc.collect">>
    /\ embs' = Append(embs, Len(embs) + 1)
    /\ pc' = IF Len(embs') = Len(diar_turns) THEN "build" ELSE "diarized"
    /\ UNCHANGED <<turns, result, err, dedupeVars, refineVars, iouVars, discoverVars, progVars, clip,
                   diar_turns>>

\* lines 174-183: emb_infer raises
ClipEmbedFails ==
    /\ pc = "diarized"
    /\ Len(embs) < Len(diar_turns)
    /\ trace' = LimitThreads(trace) \o <<"emb_infer">>
    /\ err' = "Exception"
    /\ pc' = "raised"
    /\ UNCHANGED <<turns, result, dedupeVars, refineVars, iouVars, discoverVars, progVars, clip,
                   diar_turns, embs>>

\* lines 187-207
ClipReturn ==
    /\ pc = "build"
    /\ result' = [k \in 1..Len(diar_turns) |-> [seg |-> diar_turns[k], emb |-> embs[k]]]
    /\ pc' = "done"
    /\ UNCHANGED <<turns, err, dedupeVars, refineVars, iouVars, discoverVars, clipVars, progVars>>

NextClip ==
    \/ ClipCachedReturn
    \/ ClipPrepare
    \/ ClipPrepareFails
    \/ ClipDiarize
    \/ ClipNoTurns
    \/ ClipEmbed
    \/ ClipEmbedFails
    \/ ClipReturn

SpecClip == InitClip /\ [][NextClip]_vars

(***************************************************************************)
(* The union-find of refine_by_verification (cluster.py lines 133-172),    *)
(* with the candidates in any order and a fixed outcome for each           *)
(***************************************************************************)
UFMaxTurns == 4
UFMaxKey == 3
UFMaxCands == 2

\* A candidate with the outcome of line 158 for it
Outcome(c1, c2, pass) == [c1 |-> c1, c2 |-> c2, pass |-> pass]

\* lines 125-131 in any order: each pair of keys c1 < c2 at most once
CandLists(keys) ==
    LET all == { Outcome(p[1], p[2], ok) :
                   p \in { q \in keys \X keys : q[1] < q[2] }, ok \in BOOLEAN }
    IN  UNION { { sq \in [1..n -> all] :
                    \A a, b \in 1..n :
                        a # b => <<sq[a].c1, sq[a].c2>> # <<sq[b].c1, sq[b].c2>> } :
                n \in 0..UFMaxCands }

InitUF ==
    /\ pc = "cand"
    /\ \E n \in 1..UFMaxTurns : labels \in [1..n -> { Noise } \cup 0..UFMaxKey]
    /\ ClusterKeys(labels) # {}
    /\ cand \in CandLists(ClusterKeys(labels))
    /\ cidx = 1
    /\ parent = [k \in ClusterKeys(labels) |-> k]
    /\ turns = <<>>
    /\ result = <<>>
    /\ err = "none"
    /\ iou_thresh = <<0, 1>>
    /\ emb_cos_thresh = <<0, 1>>
    /\ sorted_turns = <<>>
    /\ keep = <<>>
    /\ i = 0
    /\ j = 0
    /\ score_mode = "ecapa"
    /\ external_cmd = None
    /\ max_pairs = 0
    /\ score_threshold = 0
    /\ ecapa_loadable = TRUE
    /\ pairs = <<>>
    /\ pidx = 0
    /\ scores = <<>>
    /\ rng_pos = 0
    /\ rng_stream = <<>>
    /\ segfile = <<>>
    /\ called = {}
    /\ verdict = <<>>
    /\ vstable = TRUE
    /\ run = 1
    /\ prev_labels = <<>>
    /\ prev_sampled = <<>>
    /\ prev_result = <<>>
    /\ sampled = <<>>
    /\ AuxIdle

\* lines 158-159 with the outcome given: union(c1, c2)
UnionCandidate ==
    /\ pc = "cand"
    /\ cidx <= Len(cand)
    /\ cand[cidx].pass
    /\ parent' = Union(parent, cand[cidx].c1, cand[cidx].c2)
    /\ cidx' = cidx + 1
    /\ UNCHANGED <<pc, turns, result, err, dedupeVars, auxVars, labels, score_mode, external_cmd,
                   max_pairs, score_threshold, ecapa_loadable, vstable, cand, pairs, pidx, scores,
                   rng_pos, rng_stream, segfile, called, verdict, run, prev_labels,
                   prev_sampled, prev_result, sampled>>

\* line 158 with the outcome given: no union
SkipCandidate ==
    /\ pc = "cand"
    /\ cidx <= Len(cand)
    /\ ~cand[cidx].pass
    /\ cidx' = cidx + 1
    /\ UNCHANGED <<pc, turns, result, err, dedupeVars, auxVars, labels, score_mode, external_cmd,
                   max_pairs, score_threshold, ecapa_loadable, vstable, cand, parent, pairs, pidx,
                   scores, rng_pos, rng_stream, segfile, called, verdict, run, prev_labels,
                   prev_sampled, prev_result, sampled>>

\* lines 134-138: a call of find(x) between two candidates
CallFind ==
    /\ pc = "cand"
    /\ \E x \in DOMAIN parent : parent' = Find(parent, x)[2]
    /\ UNCHANGED <<pc, turns, result, err, dedupeVars, auxVars, labels, score_mode, external_cmd,
                   max_pairs, score_threshold, ecapa_loadable, vstable, cand, cidx, pairs, pidx,
                   scores, rng_pos, rng_stream, segfile, called, verdict, run, prev_labels,
                   prev_sampled, prev_result, sampled>>

NextUF ==
    \/ UnionCandidate
    \/ SkipCandidate
    \/ CallFind
    \/ RefineReturn

SpecUF == InitUF /\ [][NextUF]_vars

(***************************************************************************)
(* Either function called once: hard_dedupe (run = 0) or                   *)
(* refine_by_verification (run >= 1)                                       *)
(***************************************************************************)
InitEither == InitDedupe \/ InitRefine

NextEither ==
    \/ run = 0 /\ NextDedupe
    \/ run >= 1 /\ NextRefine

SpecEither == InitEither /\ [][NextEither]_vars

(***************************************************************************)
(* Properties of refine_by_verification                                    *)
(***************************************************************************)
NonNoise(labs) == { labs[k] : k \in 1..Len(labs) } \ { Noise }

\* Turns with equal labels in l1 have equal labels in l2, noise stays noise
Coarsens(l1, l2) ==
    /\ Len(l1) = Len(l2)
    /\ \A a \in 1..Len(l1) : (l1[a] = Noise) <=> (l2[a] = Noise)
    /\ \A a, b \in 1..Len(l1) : l1[a] = l1[b] => l2[a] = l2[b]
SamePartition(l1, l2) == Coarsens(l1, l2) /\ Coarsens(l2, l1)

\* C5: whenever refine_by_verification returns, the returned array has no
\* more distinct non-noise labels than the input array, and holds -1
\* exactly where the input holds -1.
C5_MergeMonotone ==
    pc = "done" =>
        /\ Len(result) = Len(labels)
        /\ Cardinality(NonNoise(result)) <= Cardinality(NonNoise(labels))
        /\ \A k \in 1..Len(labels) : (result[k] = Noise) <=> (labels[k] = Noise)

C5_Witness ==
    /\ pc = "done"
    /\ run = 1
    /\ "verifier" \in called
    /\ \E k \in 1..Len(labels) : labels[k] = Noise
    /\ Cardinality(NonNoise(result)) < Cardinality(NonNoise(labels))

\* C6 as stated: with a verifier that scores a pair of turns the same on
\* every call, the refiner run on its own output returns the partition it
\* was given.
C6_Original ==
    (pc = "done" /\ run = 2 /\ vstable) => SamePartition(labels, result)

\* C6 amended: with such a verifier, the refiner run on its own output
\* never splits a cluster and leaves noise as noise, but may merge further;
\* when the first run merged nothing, the second run returns exactly the
\* labels it was given.
C6_SecondRunCoarsens ==
    (pc = "done" /\ run = 2 /\ vstable) =>
        /\ Coarsens(labels, result)
        /\ SamePartition(prev_labels, labels) => result = labels

C6_Witness ==
    /\ pc = "done"
    /\ run = 2
    /\ vstable
    /\ "verifier" \in called
    /\ SamePartition(prev_labels, labels)
    /\ Cardinality(NonNoise(labels)) >= 2
    /\ result = labels

\* C7 as stated: a failure of segment extraction or of the verifier for a
\* sampled pair never aborts refine_by_verification.
C7_NeverAborts ==
    ~(pc = "raised" /\ err \in { "extract_failed", "verifier_failed" })

\* C8 as stated: when the verifier backend of the configured score_mode is
\* unavailable, the error is raised before the cache directory is created,
\* before any segment is materialized and before any pair is scored.
C8_FailsFast ==
    (pc = "raised" /\ err = "backend_unavailable") => called = {}

\* C9: when every label is -1 (or there is no label), the call returns an
\* array equal to its input and has invoked none of ensure_dir,
\* clip_to_segment_wav and the verifier.
C9_EmptyClusterSetNoOp ==
    (pc = "done" /\ ClusterKeys(labels) = {}) =>
        /\ result = labels
        /\ called = {}

C9_Witness ==
    /\ pc = "done"
    /\ run = 1
    /\ Len(labels) >= 2
    /\ \A k \in 1..Len(labels) : labels[k] = Noise
    /\ result = labels
    /\ called = {}

(***************************************************************************)
(* Properties of hard_dedupe                                               *)
(***************************************************************************)
Strip(t) == Turn(t.abs_start, t.abs_end, t.camera, t.spk_global, t.emb)
ResultIds == { result[k].id : k \in 1..Len(result) }
Confirmed ==
    AtCompare /\ Duplicate(sorted_turns[i], sorted_turns[j], iou_thresh, emb_cos_thresh)
DuplicatePair(a, b) ==
    /\ a # b
    /\ sorted_turns[a].spk_global = sorted_turns[b].spk_global
    /\ Duplicate(sorted_turns[a], sorted_turns[b], iou_thresh, emb_cos_thresh)

\* C1: when two turns with the same non-null spk_global are compared and
\* confirmed as duplicates, the strictly shorter one is dropped by that
\* comparison, the longer one is not, and a dropped turn is absent from the
\* returned list.
C1_KeepsLonger ==
    /\ [][Confirmed =>
            /\ sorted_turns[i].spk_global # None
            /\ Dur(sorted_turns[i]) > Dur(sorted_turns[j]) => (~keep'[j] /\ keep'[i])
            /\ Dur(sorted_turns[j]) > Dur(sorted_turns[i]) => (~keep'[i] /\ keep'[j])]_vars
    /\ [](pc = "done" => \A k \in 1..N : ~keep[k] => sorted_turns[k].id \notin ResultIds)

C1_Witness ==
    /\ pc = "done"
    /\ \E a, b \in 1..N :
        /\ DuplicatePair(a, b)
        /\ sorted_turns[a].spk_global # None
        /\ Dur(sorted_turns[a]) < Dur(sorted_turns[b])
        /\ ~keep[a] /\ keep[b]
        /\ sorted_turns[a].id \notin ResultIds
        /\ sorted_turns[b].id \in ResultIds

\* C2: a turn is only ever dropped by a comparison of two kept turns with
\* the same spk_global, of which the other one stays kept; so at return
\* every dropped turn has a same-label duplicate, whatever the embedding
\* similarity of turns with other labels.
C2_OnlySameSpeaker ==
    /\ [][\A k \in 1..N : (keep[k] /\ ~keep'[k]) =>
            /\ pc = "inner"
            /\ k \in {i, j}
            /\ keep[i] /\ keep[j]
            /\ sorted_turns[i].spk_global = sorted_turns[j].spk_global
            /\ \A m \in {i, j} \ {k} : keep'[m]]_vars
    /\ [](pc = "done" => \A k \in 1..N : ~keep[k] => \E m \in 1..N : DuplicatePair(m, k))

C2_Witness ==
    /\ pc = "done"
    /\ \E a, b \in 1..N :
        /\ sorted_turns[a].spk_global # None
        /\ sorted_turns[b].spk_global # None
        /\ sorted_turns[a].spk_global # sorted_turns[b].spk_global
        /\ Duplicate(sorted_turns[a], sorted_turns[b], iou_thresh, emb_cos_thresh)
        /\ sorted_turns[a].id \in ResultIds
        /\ sorted_turns[b].id \in ResultIds

\* C3: a turn whose spk_global is null is never an anchor and never the
\* scanned turn of a comparison, is never dropped, and is in the returned
\* list.
C3_NullNeverDeduplicated ==
    /\ [](AtCompare => sorted_turns[i].spk_global # None /\ sorted_turns[j].spk_global # None)
    /\ [][\A k \in 1..N : (keep[k] /\ ~keep'[k]) =>
            /\ sorted_turns[k].spk_global # None
            /\ sorted_turns[i].spk_global # None
            /\ sorted_turns[j].spk_global # None]_vars
    /\ [](pc = "done" =>
            \A k \in 1..Len(turns) : turns[k].spk_global = None => turns[k].id \in ResultIds)

C3_Witness ==
    /\ pc = "done"
    /\ \E a, b \in 1..N :
        /\ a # b
        /\ sorted_turns[a].spk_global = None
        /\ sorted_turns[b].spk_global = None
        /\ Duplicate(sorted_turns[a], sorted_turns[b], iou_thresh, emb_cos_thresh)
        /\ sorted_turns[a].id \in ResultIds
        /\ sorted_turns[b].id \in ResultIds

\* The end-to-end scenario: A [0,5] s and B [4.8,9.9] s with the same label
\* and cosine 0.95, C [20,25] s with another label, thresholds 0.5 / 0.85.
ScenarioInput ==
    /\ Len(turns) = 3
    /\ { Strip(turns[k]) : k \in 1..3 } = { TurnA, TurnB, TurnC }
    /\ iou_thresh = <<1, 2>>
    /\ emb_cos_thresh = <<17, 20>>

\* C4 as stated: on the scenario hard_dedupe drops B and returns exactly
\* {A, C}.
C4_Original ==
    (ScenarioInput /\ pc = "done") =>
        /\ Len(result) = 2
        /\ { Strip(result[k]) : k \in 1..Len(result) } = { TurnA, TurnC }

\* C4 amended: on the scenario the IoU of A and B is 0.2 / 9.9 < 0.5, so
\* hard_dedupe drops nothing and returns A, B, C in that order.
C4_ScenarioKeepsAll ==
    (ScenarioInput /\ pc = "done") =>
        [k \in 1..Len(result) |-> Strip(result[k])] = <<TurnA, TurnB, TurnC>>

C4_Witness ==
    /\ ScenarioInput
    /\ pc = "done"
    /\ turns[1].abs_start = 200

\* C10: hard_dedupe never changes the caller's list, and the returned list
\* holds input turns only, each at most once and with all its fields as on
\* input.
C10_OnlyFilters ==
    /\ [][turns' = turns]_vars
    /\ [](pc = "done" =>
            /\ Len(result) <= Len(turns)
            /\ \A k \in 1..Len(result) :
                /\ result[k].id \in 1..Len(turns)
                /\ result[k] = turns[result[k].id]
            /\ \A a, b \in 1..Len(result) : a # b => result[a].id # result[b].id)

C10_Witness ==
    /\ pc = "done"
    /\ Len(result) = 2
    /\ Len(turns) = 3
    /\ sorted_turns # turns
    /\ \A k \in 1..Len(turns) : turns[k].id = k

\* C11: the returned list is in ascending order of (abs_start, camera)
\* whatever the order of the input, and turns with equal keys come in the
\* order they had in the input.
C11_SortedStable ==
    pc = "done" =>
        \A a, b \in 1..Len(result) : a < b =>
            /\ ~KeyLess(result[b], result[a])
            /\ ~KeyLess(result[a], result[b]) => result[a].id < result[b].id

C11_Witness ==
    /\ pc = "done"
    /\ Len(result) = 3
    /\ ~KeyLess(result[1], result[2]) /\ ~KeyLess(result[2], result[1])
    /\ KeyLess(result[2], result[3])
    /\ result[3].id = 1
    /\ result[1].id = 2
    /\ result[2].id = 3

\* C19: when a confirmed comparison drops the anchor i, the scan from i ends
\* with that step and the next anchor is i + 1; when it drops j, the scan
\* from i goes on at j + 1; a dropped turn is never the anchor of a scan and
\* is never compared again.
C19_AsymmetricShortCircuit ==
    /\ [][(Confirmed /\ ~keep'[i]) => (pc' = "outer" /\ i' = i + 1 /\ keep'[j])]_vars
    /\ [][(Confirmed /\ ~keep'[j]) => (pc' = "inner" /\ i' = i /\ j' = j + 1 /\ keep'[i])]_vars
    /\ [][i' >= i]_vars
    /\ [](pc = "inner" => (keep[i] /\ j > i))
    /\ [](AtCompare => (keep[i] /\ keep[j]))

\* The anchor drops the second turn, scans on, and is dropped by the third
C19_Witness ==
    /\ pc = "done"
    /\ N = 3
    /\ keep = <<FALSE, FALSE, TRUE>>
    /\ sorted_turns[1].spk_global # None
    /\ Dur(sorted_turns[1]) >= Dur(sorted_turns[2])
    /\ Dur(sorted_turns[3]) > Dur(sorted_turns[1])
    /\ DuplicatePair(1, 2)
    /\ DuplicatePair(1, 3)

\* The forward scan from anchor a, at position b, as a function; order is
\* "code" (speaker skip, then stop test), "spec" (stop test, then speaker
\* skip) or "nostop" (no stop test).
RECURSIVE ScanFrom(_, _, _, _, _)
ScanFrom(ts, kp, a, b, order) ==
    IF b > Len(ts) THEN kp
    ELSE IF ~kp[b] THEN ScanFrom(ts, kp, a, b + 1, order)
    ELSE IF order = "spec" /\ BeyondMargin(ts[a], ts[b]) THEN kp
    ELSE IF ~SameSpeaker(ts[a], ts[b]) THEN ScanFrom(ts, kp, a, b + 1, order)
    ELSE IF order = "code" /\ BeyondMargin(ts[a], ts[b]) THEN kp
    ELSE IF ~Duplicate(ts[a], ts[b], iou_thresh, emb_cos_thresh)
         THEN ScanFrom(ts, kp, a, b + 1, order)
    ELSE IF KeepsAnchor(Dur(ts[a]), Dur(ts[b]))
         THEN ScanFrom(ts, [kp EXCEPT ![b] = FALSE], a, b + 1, order)
    ELSE [kp EXCEPT ![a] = FALSE]

RECURSIVE KeepFrom(_, _, _, _)
KeepFrom(ts, kp, a, order) ==
    IF a > Len(ts) THEN kp
    ELSE IF ~IsAnchor(kp[a], ts[a]) THEN KeepFrom(ts, kp, a + 1, order)
    ELSE KeepFrom(ts, ScanFrom(ts, kp, a, a + 1, order), a + 1, order)

\* keep = [True] * n
RECURSIVE AllKept(_)
AllKept(n) == IF n = 0 THEN <<>> ELSE Append(AllKept(n - 1), TRUE)

DedupeAs(order) ==
    Filter(KeepFrom(sorted_turns, AllKept(N), 1, order), sorted_turns)

\* C18: with iou_thresh > 0, the list hard_dedupe returns is the one the
\* same scan returns without the early stop, and the one it returns when the
\* stop test comes before the different-speaker skip.
C18_EarlyStopLosesNothing ==
    (pc = "done" /\ iou_thresh[1] > 0) =>
        /\ result = DedupeAs("code")
        /\ result = DedupeAs("nostop")
        /\ result = DedupeAs("spec")

\* A turn of another speaker beyond the margin comes before a turn of the
\* anchor's speaker, at which the code stops
C18_Witness ==
    /\ pc = "done"
    /\ iou_thresh[1] > 0
    /\ N = 3
    /\ sorted_turns[1].spk_global # None
    /\ ~SameSpeaker(sorted_turns[1], sorted_turns[2])
    /\ BeyondMargin(sorted_turns[1], sorted_turns[2])
    /\ SameSpeaker(sorted_turns[1], sorted_turns[3])
    /\ BeyondMargin(sorted_turns[1], sorted_turns[3])
    /\ CosinePasses(sorted_turns[1].emb, sorted_turns[3].emb, emb_cos_thresh)
    /\ Len(result) = 3

\* The union-find class of cluster id c at the end of the candidate loop
ClassOf(c) == Find(parent, c)[1]
Classes == { ClassOf(c) : c \in ClusterKeys(labels) }

\* C20: on an input with at least one cluster, the non-noise labels of the
\* returned array are exactly 0 .. m-1 for m union-find classes, noise stays
\* noise, and two clustered turns get the same new label exactly when their
\* input labels are in the same class.
C20_DenseClassIds ==
    (pc = "done" /\ ClusterKeys(labels) # {}) =>
        /\ Len(result) = Len(labels)
        /\ NonNoise(result) = 0..(Cardinality(Classes) - 1)
        /\ \A a \in 1..Len(labels) : (labels[a] = Noise) <=> (result[a] = Noise)
        /\ \A a, b \in 1..Len(labels) :
              (labels[a] # Noise /\ labels[b] # Noise) =>
                  ((result[a] = result[b]) <=> (ClassOf(labels[a]) = ClassOf(labels[b])))

\* Clusters 1 and 2 are merged and relabelled 0, next to a noise turn
C20_Witness ==
    /\ pc = "done"
    /\ run = 1
    /\ ClusterKeys(labels) = { 1, 2 }
    /\ \E k \in 1..Len(labels) : labels[k] = Noise
    /\ Cardinality(Classes) = 1
    /\ NonNoise(result) = { 0 }

\* Rational q = <<num, den>> equals n / d
RatEq(q, n, d) == q[1] * d = n * q[2]

WellFormed(a0, a1) == a0 < a1

\* The parts of C12 that hold for every argument: 5/15 for [0,10] and
\* [5,15], 0 for disjoint intervals, symmetry, and a value in [0,1] for
\* intervals with start < end.
IouCommon ==
    pc = "done" =>
        LET a0 == iou_args[1]
            a1 == iou_args[2]
            b0 == iou_args[3]
            b1 == iou_args[4]
        IN  /\ iou_args = <<0, 100, 50, 150>> => RatEq(iou_ret, 5, 15)
            /\ (a0 <= a1 /\ b0 <= b1 /\ (a1 <= b0 \/ b1 <= a0)) => RatEq(iou_ret, 0, 1)
            /\ iou_time(b0, b1, a0, a1) = iou_ret
            /\ (WellFormed(a0, a1) /\ WellFormed(b0, b1)) =>
                    (0 <= iou_ret[1] /\ iou_ret[1] <= iou_ret[2])

\* C12 as stated: in addition, 1.0 for any two identical intervals.
C12_Original ==
    /\ IouCommon
    /\ (pc = "done" /\ iou_args[1] <= iou_args[2]
            /\ iou_args[1] = iou_args[3] /\ iou_args[2] = iou_args[4])
        => RatEq(iou_ret, 1, 1)

\* C12 amended: iou_time is 5/15 for [0,10] and [5,15], 0 for disjoint
\* intervals, symmetric, within [0,1] for intervals with start < end, and
\* for two identical intervals it is 1 when they have positive length and
\* 0 when they have length zero (the epsilon floor of the denominator).
C12_IouValues ==
    /\ IouCommon
    /\ (pc = "done" /\ iou_args[1] = iou_args[3] /\ iou_args[2] = iou_args[4]) =>
        /\ WellFormed(iou_args[1], iou_args[2]) => RatEq(iou_ret, 1, 1)
        /\ iou_args[1] = iou_args[2] => RatEq(iou_ret, 0, 1)

C12_Witness ==
    /\ pc = "done"
    /\ iou_args = <<0, 100, 50, 150>>
    /\ iou_ret = <<50, 150>>

\* C13: a second call of refine_by_verification with the same turns,
\* labels, thresholds and max_pairs, and a verifier that scores the same
\* two files the same, samples the member pairs of the first call in the
\* same order and returns the label array of the first call, whatever the
\* cache directory held before either call.
C13_Reproducible ==
    /\ (run = 2 /\ pc \in { "cand", "pair", "done" }) =>
            /\ Len(sampled) <= Len(prev_sampled)
            /\ sampled = SubSeq(prev_sampled, 1, Len(sampled))
    /\ (run = 2 /\ pc = "done") =>
            /\ sampled = prev_sampled
            /\ result = prev_result


(***************************************************************************)
(* Properties of media discovery                                           *)
(***************************************************************************)
\* A file that is not hidden and not reached through a symbolic link: no
\* name on its path below the input directory starts with a dot, it is not a
\* link and no directory above it is one
Visible(n) ==
    /\ ~n.link
    /\ \A k \in 1..Len(n.rel) : ~StartsWithDot(n.rel[k])
    /\ \A k \in 1..(Len(n.rel) - 1) : ~IsSymlinkDir(n.rel[k])

\* Its extension, compared case-insensitively, is in the chosen set
IsMedia(n) == Lower(Suffix(Last(n.rel))) \in Chosen

IsAudioPath(q) == Lower(Suffix(Last(q))) \in { ".wav", ".flac" }

Below(p) == { n \in fs : n.root = p.root /\ Visible(n) /\ IsMedia(n) }

InputFile(p) ==
    IF IsFile(p) /\ Lower(Suffix(Last(p.parts))) \in Chosen
    THEN { Resolve(NodeOf(p)) } ELSE {}

ExpectedRecursive(p) ==
    IF IsDir(p) THEN { Resolve(n) : n \in Below(p) } ELSE InputFile(p)

ExpectedShallow(p) ==
    IF IsDir(p)
    THEN LET top == { n \in Below(p) : Len(n.rel) = 1 }
             aud == { n \in top : IsAudioPath(n.rel) }
             sub == { n \in Below(p) : Len(n.rel) = 2 }
         IN  { Resolve(n) : n \in (IF aud # {} THEN aud ELSE IF top # {} THEN top ELSE sub) }
    ELSE InputFile(p)

StrictlySorted(sq) == \A a, b \in 1..Len(sq) : a < b => PathLess(sq[a], sq[b])

\* C14: discover_media_paths with recursive=True returns, sorted and without
\* duplicates, exactly the resolved paths of the non-hidden, non-symlink files
\* with a chosen extension at any depth under the given directories, an input
\* media file itself, and nothing for a missing input.
C14_RecursiveExact ==
    (pc = "returned" /\ recursive) =>
        /\ StrictlySorted(discovered)
        /\ Range(discovered) = UNION { ExpectedRecursive(paths[k]) : k \in 1..Len(paths) }

C16_MainDiscovery ==
    pc = "done" =>
        /\ \A a, b \in 1..Len(result) : a < b => ~PathLess(result[b], result[a])
        /\ (~recursive /\ \E k \in 1..Len(discovered) : IsAudioPath(discovered[k]))
              => \A k \in 1..Len(result) : IsAudioPath(result[k])
        /\ recursive =>
              \A k \in 1..Len(config.input_paths) :
                  ExpectedRecursive(config.input_paths[k]) \subseteq Range(result)
        /\ config.input_paths # <<>> =>
              /\ paths = config.input_paths
              /\ results # {} => Range(result) \subseteq results


(***************************************************************************)
(* Properties of process_one_clip                                          *)
(***************************************************************************)
Calls(name) == { k \in 1..Len(trace) : trace[k] = name }

\* the thread limit is set after the previous inference, if any, and before
\* the one at position k
LimitedBefore(k) ==
    \E a, b \in 1..(k - 1) :
        /\ a < b
        /\ trace[a] = "set_num_threads"
        /\ trace[b] = "set_num_interop_threads"
        /\ \A m \in a..k - 1 : trace[m] # "emb_infer"

\* C17: a call of process_one_clip that returns has called set_num_threads,
\* set_num_interop_threads and gc.collect at least once, whichever of its
\* three paths it took, and on the path with turns every embedding inference
\* comes after the thread limit was set for it and is followed by gc.collect.
C17_ThreadLimitAndCleanup ==
    pc = "done" =>
        /\ Calls("set_num_threads") # {}
        /\ Calls("set_num_interop_threads") # {}
        /\ Calls("gc.collect") # {}
        /\ Cardinality(Calls("emb_infer")) = Len(diar_turns)
        /\ \A k \in Calls("emb_infer") :
              /\ LimitedBefore(k)
              /\ k < Len(trace)
              /\ trace[k + 1] = "gc.collect"

C17_Witness ==
    /\ pc = "done"
    /\ ~clip.turns_cached
    /\ Len(diar_turns) = 2
    /\ Cardinality(Calls("emb_infer")) = 2
    /\ Cardinality(Calls("except")) = 2


(***************************************************************************)
(* Further properties of hard_dedupe                                       *)
(***************************************************************************)
\* C27: with iou_thresh > 0, the returned list holds no two turns with the
\* same non-null spk_global whose IoU is >= iou_thresh and whose embedding
\* cosine is >= emb_cos_thresh.
C27_NoDuplicateSurvives ==
    (pc = "done" /\ iou_thresh[1] > 0) =>
        \A a, b \in 1..Len(result) :
            (a # b /\ result[a].spk_global # None
                   /\ result[a].spk_global = result[b].spk_global)
                => ~Duplicate(result[a], result[b], iou_thresh, emb_cos_thresh)

\* An anchor was dropped by the second turn, and two turns of one speaker
\* beyond each other's margin are both returned
C27_Witness ==
    /\ pc = "done"
    /\ iou_thresh[1] > 0
    /\ N = 3
    /\ keep = <<FALSE, TRUE, TRUE>>
    /\ DuplicatePair(1, 2)
    /\ sorted_turns[2].spk_global = sorted_turns[3].spk_global
    /\ BeyondMargin(sorted_turns[2], sorted_turns[3])
    /\ Len(result) = 2


\* The first turn of its speaker, in sorted order, among those of maximal
\* duration
FirstLongest(k) ==
    /\ sorted_turns[k].spk_global # None
    /\ \A m \in 1..N : SameSpeaker(sorted_turns[m], sorted_turns[k]) =>
          \/ Dur(sorted_turns[m]) < Dur(sorted_turns[k])
          \/ Dur(sorted_turns[m]) = Dur(sorted_turns[k]) /\ m >= k

\* C29: for every non-null spk_global of the input, the turn of that speaker
\* with the maximal duration that comes first in (abs_start, camera) order is
\* never dropped and is in the returned list; a confirmed duplicate pair of
\* equal duration keeps the earlier-sorted turn and drops the later one.
C29_SpeakerSurvives ==
    /\ [](\A k \in 1..N : FirstLongest(k) => keep[k])
    /\ [](pc = "done" =>
            \A k \in 1..N : FirstLongest(k) => sorted_turns[k].id \in ResultIds)
    /\ [](pc = "done" =>
            \A t \in 1..Len(turns) : turns[t].spk_global # None =>
                \E r \in 1..Len(result) : result[r].spk_global = turns[t].spk_global)
    /\ [][(Confirmed /\ Dur(sorted_turns[i]) = Dur(sorted_turns[j]))
            => (keep'[i] /\ ~keep'[j])]_vars

\* Two duplicates of equal, maximal duration, of which the first is kept,
\* and a shorter duplicate of the same speaker
C29_Witness ==
    /\ pc = "done"
    /\ N = 3
    /\ \E a, b, c \in 1..N :
        /\ a < b
        /\ c \notin { a, b }
        /\ DuplicatePair(a, b)
        /\ Dur(sorted_turns[a]) = Dur(sorted_turns[b])
        /\ SameSpeaker(sorted_turns[a], sorted_turns[c])
        /\ Dur(sorted_turns[c]) < Dur(sorted_turns[a])
        /\ FirstLongest(a)
        /\ keep[a] /\ ~keep[b]
        /\ sorted_turns[a].id \in ResultIds


\* C28: with iou_thresh > 0, hard_dedupe called on the list it returned
\* returns the same turns in the same order.
C28_Idempotent ==
    (pc = "done" /\ run = 2 /\ iou_thresh[1] > 0) => result = prev_result

\* The first call dropped the second of three turns, the second call
\* compared the two that were left
C28_Witness ==
    /\ pc = "done"
    /\ run = 2
    /\ iou_thresh[1] > 0
    /\ N = 2
    /\ ResultIds = { 1, 3 }
    /\ result = prev_result
    /\ SameSpeaker(result[1], result[2])
    /\ ~BeyondMargin(result[1], result[2])


(***************************************************************************)
(* Degenerate inputs                                                       *)
(***************************************************************************)
\* No union changed the parent map
MergedNothing == \A c \in DOMAIN parent : parent[c] = c

\* The labels with every cluster id replaced by its rank among the ids
Renumbered(labs) ==
    [k \in 1..Len(labs) |->
        IF labs[k] = Noise THEN Noise
        ELSE Cardinality({ c \in ClusterKeys(labs) : c < labs[k] })]

\* The cluster ids are 0 .. k-1
Dense(labs) == ClusterKeys(labs) = 0..(Cardinality(ClusterKeys(labs)) - 1)

\* No turn starts within 1.0 s of the end of an earlier one
NoScanWindow ==
    \A a, b \in 1..N : a < b => BeyondMargin(sorted_turns[a], sorted_turns[b])

RECURSIVE Up(_, _, _)
Up(par, x, n) ==
    IF par[x] = x THEN x
    ELSE IF n = 0 THEN -1
    ELSE Up(par, par[x], n - 1)
Root(par, x) == Up(par, x, Cardinality(DOMAIN par))

\* The candidates handled so far for which union was called
Accepted ==
    { { cand[k].c1, cand[k].c2 } : k \in { m \in 1..(cidx - 1) : cand[m].pass } }

\* The connected component of the keys S in the graph with edges E
RECURSIVE Component(_, _)
Component(S, E) ==
    LET T == S \cup { y \in DOMAIN parent : \E x \in S : { x, y } \in E }
    IN  IF T = S THEN S ELSE Component(T, E)

\* C21: whatever the order of the candidate list, with the outcome of each
\* candidate fixed, two cluster ids are in one class of the union-find
\* exactly when they are connected in the graph of the accepted candidates,
\* and two clustered turns get the same new label exactly when their old ids
\* are connected in it.
C21_OrderIndependent ==
    /\ \A a, b \in DOMAIN parent :
          (Root(parent, a) = Root(parent, b)) <=> (b \in Component({ a }, Accepted))
    /\ pc = "done" =>
          \A x, y \in 1..Len(labels) :
              (labels[x] # Noise /\ labels[y] # Noise) =>
                  ((result[x] = result[y]) <=> (labels[y] \in Component({ labels[x] }, Accepted)))

\* The candidate (1, 2) is accepted before (0, 2), which attaches the root 1
\* under 0; a fourth cluster stays alone
C21_Witness ==
    /\ pc = "done"
    /\ ClusterKeys(labels) = 0..3
    /\ Len(cand) = 2
    /\ cand[1] = Outcome(1, 2, TRUE)
    /\ cand[2] = Outcome(0, 2, TRUE)
    /\ Root(parent, 1) = 0
    /\ Root(parent, 3) = 3
    /\ \A x, y \in 1..Len(labels) : (result[x] = result[y]) <=> (labels[x] = 3 <=> labels[y] = 3)


\* The smallest cluster id in the class of c
MinOfClass(c) ==
    CHOOSE m \in DOMAIN parent :
        /\ Root(parent, m) = Root(parent, c)
        /\ \A k \in DOMAIN parent : Root(parent, k) = Root(parent, c) => m <= k

\* C30: the parent map is always a forest; a union or a find never takes
\* two ids of one class apart; find(x) returns the root of x's class and its
\* path halving changes no class; turns with equal non-noise input labels
\* get equal output labels; and the new ids ascend with the smallest old id
\* of each class, whether or not that id is the root.
C30_ForestAndOrder ==
    /\ [](\A x \in DOMAIN parent : Root(parent, x) # -1)
    /\ [][\A a, b \in DOMAIN parent :
            Root(parent, a) = Root(parent, b) => Root(parent', a) = Root(parent', b)]_vars
    /\ [](\A x \in DOMAIN parent :
            /\ Find(parent, x)[1] = Root(parent, x)
            /\ \A y \in DOMAIN parent : Root(Find(parent, x)[2], y) = Root(parent, y))
    /\ [](pc = "done" =>
            \A x, y \in 1..Len(labels) :
                (labels[x] # Noise /\ labels[y] # Noise) =>
                    /\ labels[x] = labels[y] => result[x] = result[y]
                    /\ MinOfClass(labels[x]) < MinOfClass(labels[y]) => result[x] < result[y])

\* The class {0, 2, 3} has the root 2, the cluster 1 stays alone, and a
\* find has halved the path of 3
C30_Witness ==
    /\ pc = "done"
    /\ ClusterKeys(labels) = 0..3
    /\ Root(parent, 0) = 2
    /\ Root(parent, 3) = 2
    /\ Root(parent, 1) = 1
    /\ parent[3] = 2
    /\ cand = <<Outcome(0, 3, TRUE), Outcome(2, 3, TRUE)>>
    /\ \A x \in 1..Len(labels) : result[x] = (IF labels[x] = 1 THEN 1 ELSE 0)

(***************************************************************************)
(* The segment cache of refine_by_verification                             *)
(***************************************************************************)
\* C23: within one call seg_<i>.wav is written at most once and only when
\* it was absent, a step that scores a pair leaves every file it found in
\* the cache as it was, and the two files handed to the scorer hold the
\* segments cut from the two turns themselves, also when the cache
\* directory held files of an earlier call with another turn list.
C23_OwnSegmentScored ==
    [][ /\ run' = run =>
            \A k \in DOMAIN segfile :
                segfile'[k] # segfile[k] => segfile[k] = "absent" /\ segfile'[k] = "own"
        /\ (pc = "pair" /\ scores' # scores) =>
            /\ \A k \in DOMAIN segfile :
                    segfile'[k] # segfile[k] <=> (k \in { pairs[pidx][1], pairs[pidx][2] }
                                                    /\ segfile[k] = "absent")
            /\ \A k \in { pairs[pidx][1], pairs[pidx][2] } : segfile'[k] = "own"
      ]_vars

(***************************************************************************)
(* The event history (src/progress/state.py) and the error handlers        *)
(* (src/progress/errors.py)                                                *)
(*                                                                         *)
(* Times are whole seconds.  A call is made one second after the previous  *)
(* one returned; the events it records carry the time of the call.         *)
(***************************************************************************)
\* state.py lines 144-145
HistoryLimit == 1000
HistoryKeep == 500

\* errors.py lines 255-256
max_retries == 3
base_delay == 2

MaxCalls == 4
MaxEvents == 3

\* errors.py lines 21-26
ErrorType == { "RECOVERABLE", "FATAL", "WARNING", "INFO" }

\* The details of an Error: None, a retry time, or a resource report
DetailsPool ==
    { <<>>,
      <<[retry_after |-> 4]>>,
      <<[resource |-> "memory", current_usage |-> 100, max_usage |-> 100]>> }

\* "k in (error.details or {})"
HasKey(d, k) == Len(d) = 1 /\ k \in DOMAIN d[1]

\* errors.py lines 29-37: Error(type, message, stage, timestamp, details)
NewError(type, details) == [type |-> type, details |-> details, retry_count |-> 0]

\* state.py lines 135-139
Event(t, type, details) == [timestamp |-> t, type |-> type, details |-> details]

\* The "error" event of errors.py lines 92-101 (rc = <<retry_count>>),
\* lines 111-119 and 382-390 (rc = <<>>)
ErrorEvent(t, type, details, rc) ==
    Event(t, "error", [type |-> type, details |-> details, retry_count |-> rc])

\* state.py lines 140-145: append, then keep the last 500 of more than 1000
record_event_unbounded(h, ev) == Append(h, ev)
record_event(h, ev) ==
    LET full == Append(h, ev)
    IN  IF Len(full) > HistoryLimit
        THEN SubSeq(full, Len(full) - HistoryKeep + 1, Len(full))
        ELSE full

RECURSIVE Pow2(_)
Pow2(n) == IF n = 0 THEN 1 ELSE 2 * Pow2(n - 1)

\* errors.py lines 149-192 and 231-267: _attempt_recovery of handler class h
\* for error e at time t; what it returns and the time.sleep calls it makes
attempt_recovery(h, e, t) ==
    IF h = "ResourceExhaustionHandler"
    THEN IF ~HasKey(e.details, "resource")
         THEN [ret |-> FALSE, slept |-> <<>>]
         ELSE IF e.details[1].resource \in { "memory", "cpu" }
              THEN [ret |-> 4 * e.details[1].current_usage < 5 * e.details[1].max_usage,
                    slept |-> <<2>>]
              ELSE [ret |-> FALSE, slept |-> <<>>]
    ELSE IF HasKey(e.details, "retry_after") /\ e.details[1].retry_after # 0
            /\ t < e.details[1].retry_after
         THEN [ret |-> TRUE, slept |-> <<e.details[1].retry_after - t>>]
         ELSE IF e.retry_count < max_retries
              THEN [ret |-> TRUE, slept |-> <<base_delay * Pow2(e.retry_count)>>]
              ELSE [ret |-> FALSE, slept |-> <<>>]

\* errors.py lines 77-120: BaseErrorHandler.handle of handler class h
handle(h, e, hist, t) ==
    IF e.type = "RECOVERABLE"
    THEN LET e1 == [e EXCEPT !.retry_count = @ + 1]
             r == attempt_recovery(h, e1, t)
         IN  [error |-> e1,
              history |-> record_event(hist, ErrorEvent(t, e1.type, e1.details, <<e1.retry_count>>)),
              handler |-> <<h>>, ret |-> r.ret, slept |-> r.slept, saves |-> 1]
    ELSE [error |-> e,
          history |-> record_event(hist, ErrorEvent(t, e.type, e.details, <<>>)),
          handler |-> <<h>>, ret |-> FALSE, slept |-> <<>>, saves |-> 1]

\* errors.py lines 306-309: the handlers dict, keyed by the handler classes
DefaultHandlers ==
    << <<"ResourceExhaustionHandler", "ResourceExhaustionHandler">>,
       <<"TemporaryFailureHandler", "TemporaryFailureHandler">> >>

\* isinstance(error, cls): an Error is an instance of Error and of object
isinstance(e, cls) == cls \in { "Error", "object" }

\* errors.py lines 331-341: the first handler whose key the error is an
\* instance of handles it
handle_error(hs, e, hist, t) ==
    LET matching == SelectSeq(hs, LAMBDA kv : isinstance(e, kv[1]))
    IN  IF matching = <<>>
        THEN [error |-> e, history |-> hist, handler |-> <<>>, ret |-> FALSE,
              slept |-> <<>>, saves |-> 0]
        ELSE handle(Head(matching)[2], e, hist, t)

\* errors.py line 319: self.handlers[error_type] = handler
add_handler(hs, key, h) ==
    IF \E k \in 1..Len(hs) : hs[k][1] = key
    THEN [k \in 1..Len(hs) |-> IF hs[k][1] = key THEN <<key, h>> ELSE hs[k]]
    ELSE Append(hs, <<key, h>>)

ProgOthersIdle ==
    /\ pc = "idle"
    /\ result = <<>>
    /\ err = "none"
    /\ DedupeIdle
    /\ RefineIdle
    /\ IouIdle
    /\ DiscoverIdle
    /\ ClipIdle

\* What a call leaves behind: state.py lines 60-67, save() writes the
\* history to the state file unless the file cannot be opened
Returns(op, r, ret, raised, saves) ==
    /\ history' = r.history
    /\ disk' = IF saves > 0 /\ writable THEN r.history ELSE disk
    /\ now' = now + 1 + SumSeq(r.slept)
    /\ last' = [op |-> op, handler |-> r.handler, ret |-> ret, slept |-> r.slept,
                saves |-> saves, raised |-> raised]
    /\ ncalls' = ncalls + 1
    /\ UNCHANGED <<pc, turns, result, err, dedupeVars, refineVars, iouVars, discoverVars,
                   clipVars, writable>>

\* ErrorManager(state) on a new PipelineState, and an Error the caller built
InitErrors ==
    /\ ProgOthersIdle
    /\ history = <<>>
    /\ disk = <<>>
    /\ writable \in BOOLEAN
    /\ now = 0
    /\ error \in { NewError(ty, d) : ty \in ErrorType, d \in DetailsPool }
    /\ handlers = DefaultHandlers
    /\ last = <<>>
    /\ ncalls = 0

\* handler.handle(error) on a handler of class h
Handle(h) ==
    /\ ncalls < MaxCalls
    /\ LET r == handle(h, error, history, now + 1)
       IN  /\ error' = r.error
           /\ Returns("handle", r, <<r.ret>>, <<>>, r.saves)
    /\ UNCHANGED handlers

\* error_manager.handle_error(error)
HandleError ==
    /\ ncalls < MaxCalls
    /\ LET r == handle_error(handlers, error, history, now + 1)
       IN  /\ error' = r.error
           /\ Returns("handle_error", r, <<r.ret>>, <<>>, r.saves)
    /\ UNCHANGED handlers

\* errors.py lines 374-395: error_manager.report_error(ty, message, stage, d)
\* with a member of ErrorType
ReportError(ty, d) ==
    /\ ncalls < MaxCalls
    /\ LET own == record_event(history, ErrorEvent(now + 1, ty, d, <<>>))
           r == handle_error(handlers, NewError(ty, d), own, now + 1)
       IN  Returns("report_error", r, <<>>, <<>>, 1 + r.saves)
    /\ UNCHANGED <<error, handlers>>

\* main.py lines 128, 268, 320: report_error("fatal", ...); error_type.name
\* at errors.py line 385 raises AttributeError before record_event is called
ReportErrorString ==
    /\ ncalls < MaxCalls
    /\ Returns("report_error", [history |-> history, handler |-> <<>>, slept |-> <<>>],
               <<>>, <<"AttributeError">>, 0)
    /\ UNCHANGED <<error, handlers>>

\* error_manager.add_handler(Error, handler)
AddHandler(h) ==
    /\ ncalls < MaxCalls
    /\ handlers' = add_handler(handlers, "Error", h)
    /\ Returns("add_handler", [history |-> history, handler |-> <<>>, slept |-> <<>>],
               <<>>, <<>>, 0)
    /\ UNCHANGED error

NextErrors ==
    \/ \E h \in { "ResourceExhaustionHandler", "TemporaryFailureHandler" } : Handle(h)
    \/ HandleError
    \/ \E ty \in { "RECOVERABLE", "FATAL" }, d \in DetailsPool : ReportError(ty, d)
    \/ ReportErrorString
    \/ \E h \in { "ResourceExhaustionHandler", "TemporaryFailureHandler" } : AddHandler(h)

SpecErrors == InitErrors /\ [][NextErrors]_vars

\* One Error handled again and again by the TemporaryFailureHandler
NextRetry == Handle("TemporaryFailureHandler")

SpecRetry == InitErrors /\ [][NextRetry]_vars

\* state.py lines 36-57: load_or_create() read a state file that an earlier
\* run saved, with n events in its history
Loaded(n) == [k \in 1..n |-> Event(k, "stage_start", <<>>)]

InitHistory ==
    /\ ProgOthersIdle
    /\ \E n \in { 0, HistoryKeep, HistoryLimit - 1, HistoryLimit } :
        /\ history = Loaded(n)
        /\ now = n
    /\ disk = history
    /\ writable \in BOOLEAN
    /\ error = <<>>
    /\ handlers = <<>>
    /\ last = <<>>
    /\ ncalls = 0

\* state.py lines 129-147: state.record_event(type, details)
RecordEvent(type) ==
    /\ ncalls < MaxEvents
    /\ Returns("record_event",
               [history |-> record_event(history, Event(now + 1, type, <<>>)),
                handler |-> <<>>, slept |-> <<>>],
               <<>>, <<>>, 1)
    /\ UNCHANGED <<error, handlers>>

NextHistory == \E type \in { "stage_start", "stage_end" } : RecordEvent(type)

SpecHistory == InitHistory /\ [][NextHistory]_vars

(***************************************************************************)
(* Properties of the event history and the error handlers                  *)
(***************************************************************************)
\* C26: the history never holds more than 1000 events; a record_event call
\* appends its event, and when that makes 1001 it keeps the 500 most recent
\* ones in their order; the event of the call is the last element; and the
\* call ends with one save() of that history.
C26_HistoryBounded ==
    /\ [](Len(history) <= HistoryLimit)
    /\ [][ ncalls' = ncalls + 1 =>
            LET full == Append(history, Last(history'))
            IN  /\ history' # <<>>
                /\ Last(history').timestamp = now + 1
                /\ \A k \in 1..Len(history) : history[k].timestamp <= now
                /\ history' = IF Len(history) = HistoryLimit
                              THEN SubSeq(full, Len(full) - HistoryKeep + 1, Len(full))
                              ELSE full
                /\ Len(history) = HistoryLimit => Len(history') = HistoryKeep
                /\ last'.saves = 1
                /\ writable => disk' = history'
         ]_vars

\* the 1001st event has just been recorded on top of a loaded history of
\* 1000: events 502..1001 are left
C26_Witness ==
    /\ last # <<>>
    /\ ncalls = 1
    /\ Len(history) = HistoryKeep
    /\ history[1].timestamp = HistoryLimit - HistoryKeep + 2
    /\ Last(history).timestamp = HistoryLimit + 1
    /\ disk = history

\* C24: TemporaryFailureHandler.handle on a RECOVERABLE error without a
\* retry_after detail adds one to retry_count and records one error event
\* with the new count; the first max_retries = 3 calls wait
\* base_delay * 2^retry_count seconds and return True, every later call
\* returns False without waiting.
C24_BoundedBackoff ==
    [][ ( /\ ncalls' = ncalls + 1
          /\ last'.op \in { "handle", "handle_error" }
          /\ last'.handler = <<"TemporaryFailureHandler">>
          /\ error.type = "RECOVERABLE"
          /\ ~HasKey(error.details, "retry_after") ) =>
            /\ error'.retry_count = error.retry_count + 1
            /\ history' = Append(history, ErrorEvent(now + 1, error.type, error.details,
                                                     <<error'.retry_count>>))
            /\ IF error'.retry_count <= max_retries
               THEN /\ last'.ret = <<TRUE>>
                    /\ last'.slept = <<base_delay * Pow2(error'.retry_count)>>
               ELSE /\ last'.ret = <<FALSE>>
                    /\ last'.slept = <<>>
      ]_vars

\* C25: with the default handlers registered, report_error records one
\* error event of its own and hands the Error to handle_error; handle_error
\* passes the Error to a registered handler and returns what that handler
\* returns, and returns False without a handler only when no registered
\* handler matches the error.
C25_DispatchesToHandler ==
    [][ (handlers = DefaultHandlers /\ ncalls' = ncalls + 1) =>
            /\ last'.op = "report_error" =>
                /\ last'.raised = <<>>
                /\ \E ty \in ErrorType, d \in DetailsPool :
                     LET own == Append(history, ErrorEvent(now + 1, ty, d, <<>>))
                     IN  history' = handle_error(handlers, NewError(ty, d), own, now + 1).history
                /\ last'.handler # <<>>
            /\ last'.op = "handle_error" =>
                /\ last'.handler # <<>>
                /\ last'.ret = <<handle(last'.handler[1], error, history, now + 1).ret>>
                /\ error' = handle(last'.handler[1], error, history, now + 1).error
      ]_vars

=============================================================================
